---- MODULE Spec2Model ----
\* Model of StormByte::Buffer: the byte queue (FIFO), the blocking thread-safe
\* queue (SharedFIFO) with its mutex / condition variable, and the threads
\* that call it.
EXTENDS Integers, Sequences, FiniteSets, TLC

\* ------------------------------------------------------------------ bounds
MaxBytes == 2
MaxCount == 2
MaxStages == 2
MaxRuns == 2
MaxInput == 1

\* the threads that share the queue
Writer == "T1"
Reader == "T2"
Third == "T3"
Threads == {Writer, Reader, Third}
\* the two threads of the scenarios with one caller on each side
Pair == {Writer, Reader}
Free == "free"
Counts == 0..MaxCount
Offsets == (0 - MaxCount)..MaxCount

VARIABLES
    m_buffer,           \* FIFO::m_buffer: the stored bytes
    m_position_offset,  \* FIFO::m_position_offset: the read cursor
    m_closed,           \* SharedFIFO::m_closed
    m_error,            \* SharedFIFO::m_error
    m_mutex,            \* SharedFIFO::m_mutex: Free, or the thread that owns it
    pc,                 \* per thread: where it is inside a SharedFIFO call
    op,                 \* per thread: the member function it is executing
    arg,                \* per thread: the arguments of that call
    real_count,         \* per thread: the local real_count of Read/Extract/Peek
    waited,             \* per thread: the call blocked in m_cv.wait at least once
    ret,                \* the call that returned in the last step, if any (thread, result)
    nextByte,           \* value of the next byte a writer appends (bytes are numbered)
    collected,          \* the consumer threads' collected results, in return order
    accepted,           \* per byte of a recorded accepted Write: the thread that wrote it
    \* ---- Pipeline (pipeline.hxx) and the queues of a run
    m_pipes,            \* Pipeline::m_pipes: the stage functions, in order
    m_producers,        \* Pipeline::m_producers: one queue per stage
    m_threads,          \* Pipeline::m_threads: the std::thread handles
    queues,             \* the SharedFIFO objects alive: store, cursor, closed, errored
    stages,             \* the stage functions of the run that were started: position, handles
    ppc,                \* where the thread that owns the Pipeline is in its code
    run_mode,           \* the ExecutionMode `mode` of the Process call
    stage_i,            \* the loop index i of Process / SetError / the join loops
    input,              \* the queue behind the Consumer passed to Process
    result,             \* the queue behind the Consumer Process returned
    output,             \* the bytes the caller took from the returned Consumer
    fed,                \* the bytes written to the input queue so far
    runs,               \* the number of Process calls so far
    pret,               \* the caller's last call on the returned Consumer, if it just returned
    terminated,         \* the program was aborted (std::terminate, or a crash)
    cancel,             \* a second thread inside Pipeline::SetError: the element of
                        \* m_producers its loop is at, 0 outside the call
    \* ---- single-threaded programs
    script,             \* a program on a plain FIFO: its position and what its reads returned
    bridge,             \* a Bridge: chunk size, pending bytes, what its reader gave and its
                        \* writer took, and the call that returned last
    \* ---- ExternalProducer and the Consumer of its queue
    xp,                 \* the ExternalProducer: its queue, where m_rw_thread is, has_error
    cons                \* the thread that holds the Consumer: its loop, what it collected

sharedVars == <<m_buffer, m_position_offset, m_closed, m_error, m_mutex, pc, op, arg,
                real_count, waited, ret, nextByte, collected, accepted>>

pipelineVars == <<m_pipes, m_producers, m_threads, queues, stages, ppc, run_mode, stage_i,
                  input, result, output, fed, runs, pret, terminated, cancel>>

\* the variables of the single-threaded programs
externVars == <<script, bridge, xp, cons>>

vars == <<sharedVars, pipelineVars, externVars>>

fifoVars == <<m_buffer, m_position_offset>>
flagVars == <<m_closed, m_error>>

\* ------------------------------------------------------------ FIFO (fifo.cxx)
\* std::vector<std::byte>(begin + from, begin + from + n)
Slice(buf, from, n) == SubSeq(buf, from + 1, from + n)

FIFO_AvailableBytes(buf, pos) ==
    IF pos <= Len(buf) THEN Len(buf) - pos ELSE 0

AvailableBytes == FIFO_AvailableBytes(m_buffer, m_position_offset)

ReadErr(msg, buf, pos) ==
    [ok |-> FALSE, err |-> msg, data |-> <<>>, buf |-> buf, pos |-> pos]

ReadOk(data, buf, pos) ==
    [ok |-> TRUE, err |-> "", data |-> data, buf |-> buf, pos |-> pos]

\* FIFO::Read as it would be if a short read returned what is there
FIFO_ReadPartial(buf, pos, count) ==
    LET available == FIFO_AvailableBytes(buf, pos)
        rc == IF count = 0 \/ count > available THEN available ELSE count
    IN  IF available = 0 THEN ReadErr("Insufficient data to read", buf, pos)
        ELSE ReadOk(Slice(buf, pos, rc), buf, pos + rc)

\* FIFO::Read as it would be if it left the cursor where it was
FIFO_ReadKeepsCursor(buf, pos, count) ==
    LET available == FIFO_AvailableBytes(buf, pos)
        rc == IF count = 0 THEN available ELSE count
    IN  IF available = 0 THEN ReadErr("Insufficient data to read", buf, pos)
        ELSE IF rc > available THEN ReadErr("Insufficient data to read", buf, pos)
        ELSE ReadOk(Slice(buf, pos, rc), buf, pos)

FIFO_Read(buf, pos, count) ==
    LET available == FIFO_AvailableBytes(buf, pos)
        rc == IF count = 0 THEN available ELSE count
    IN  IF available = 0 THEN ReadErr("Insufficient data to read", buf, pos)
        ELSE IF rc > available THEN ReadErr("Insufficient data to read", buf, pos)
        ELSE ReadOk(Slice(buf, pos, rc), buf, pos + rc)

\* FIFO::Extract as it would be if it removed from the front of the store
FIFO_ExtractFront(buf, pos, count) ==
    LET available == FIFO_AvailableBytes(buf, pos)
        rc == IF count = 0 THEN available ELSE count
    IN  IF available = 0 THEN ReadErr("Insufficient data to read", buf, pos)
        ELSE IF rc > available THEN ReadErr("Insufficient data to read", buf, pos)
        ELSE ReadOk(SubSeq(buf, 1, rc), SubSeq(buf, rc + 1, Len(buf)), pos)

\* FIFO::Extract as it would be if it dropped the store from the cursor on
FIFO_ExtractTruncates(buf, pos, count) ==
    LET available == FIFO_AvailableBytes(buf, pos)
        rc == IF count = 0 THEN available ELSE count
    IN  IF available = 0 THEN ReadErr("Insufficient data to read", buf, pos)
        ELSE IF rc > available THEN ReadErr("Insufficient data to read", buf, pos)
        ELSE ReadOk(Slice(buf, pos, rc), SubSeq(buf, 1, pos), pos)

FIFO_Extract(buf, pos, count) ==
    LET available == FIFO_AvailableBytes(buf, pos)
        rc == IF count = 0 THEN available ELSE count
    IN  IF available = 0 THEN ReadErr("Insufficient data to read", buf, pos)
        ELSE IF rc > available THEN ReadErr("Insufficient data to read", buf, pos)
        ELSE ReadOk(Slice(buf, pos, rc),
                    SubSeq(buf, 1, pos) \o SubSeq(buf, pos + rc + 1, Len(buf)),
                    pos)

FIFO_Peek(buf, pos, count) ==
    LET available == FIFO_AvailableBytes(buf, pos)
        rc == IF count = 0 THEN available ELSE count
    IN  IF available = 0 THEN ReadErr("Insufficient data to peek", buf, pos)
        ELSE IF rc > available THEN ReadErr("Insufficient data to peek", buf, pos)
        ELSE ReadOk(Slice(buf, pos, rc), buf, pos)

\* FIFO::Write as it would be if it inserted at the front of the store
FIFO_WriteFront(buf, pos, data) ==
    [buf |-> data \o buf, pos |-> pos]

\* FIFO::Write(const std::vector<std::byte>&)
FIFO_Write(buf, pos, data) ==
    [buf |-> buf \o data, pos |-> pos]

\* FIFO::Write(const FIFO&): appends the whole store of other
FIFO_WriteFifo(buf, pos, obuf, opos) ==
    [buf |-> buf \o obuf, pos |-> pos]

\* FIFO::Write(FIFO&&): steals other's storage and cursor when this is empty
FIFO_WriteFifoMove(buf, pos, obuf, opos) ==
    IF obuf = <<>> THEN [buf |-> buf, pos |-> pos]
    ELSE IF buf = <<>> THEN [buf |-> obuf, pos |-> opos]
    ELSE [buf |-> buf \o obuf, pos |-> pos]

FIFO_Clear(buf, pos) == [buf |-> <<>>, pos |-> 0]

FIFO_Clean(buf, pos) ==
    IF pos > 0 /\ pos <= Len(buf)
    THEN [buf |-> SubSeq(buf, pos + 1, Len(buf)), pos |-> 0]
    ELSE [buf |-> <<>>, pos |-> 0]

\* FIFO::Seek as it would be if every offset were absolute
FIFO_SeekIgnoresMode(buf, pos, offset, mode) ==
    [buf |-> buf,
     pos |-> IF offset < 0 THEN 0
             ELSE IF offset > Len(buf) THEN Len(buf)
             ELSE offset]

\* FIFO::Seek as it would be without the clamp to [0, size]
FIFO_SeekUnclamped(buf, pos, offset, mode) ==
    [buf |-> buf, pos |-> IF mode = "Absolute" THEN offset ELSE pos + offset]

FIFO_Seek(buf, pos, offset, mode) ==
    LET new_offset == IF mode = "Absolute" THEN offset ELSE pos + offset
    IN  [buf |-> buf,
         pos |-> IF new_offset < 0 THEN 0
                 ELSE IF new_offset > Len(buf) THEN Len(buf)
                 ELSE new_offset]

\* Skip as it would be without the call of FIFO::Clean
FIFO_SkipNoClean(buf, pos, count) ==
    IF count = 0 THEN [buf |-> buf, pos |-> pos]
    ELSE [buf |-> buf, pos |-> IF pos + count >= Len(buf) THEN Len(buf) ELSE pos + count]

\* SharedFIFO::Skip replicates FIFO::Skip and calls FIFO::Clean
FIFO_Skip(buf, pos, count) ==
    IF count = 0 THEN [buf |-> buf, pos |-> pos]
    ELSE FIFO_Clean(buf, IF pos + count >= Len(buf) THEN Len(buf) ELSE pos + count)

\* ------------------------------------------------- SharedFIFO (shared_fifo.cxx)
ReadOps == {"Read", "Extract", "Peek"}
WriteKinds == {"vector", "string", "FIFO", "FIFO&&"}
Modes == {"Absolute", "Relative"}
Ops == ReadOps \cup {"Write", "Close", "SetError", "Clear", "Clean", "Seek", "Skip", "EoF"}

NoArg == [n |-> 0, mode |-> "", kind |-> "", pos |-> 0, collect |-> FALSE, loop |-> FALSE]

NoRet == [t |-> "", op |-> "", n |-> 0, ok |-> FALSE, err |-> "", data |-> <<>>,
          waited |-> FALSE, val |-> FALSE]

\* thread t is outside every call again: its locals are gone
Leave(t) ==
    /\ pc' = [pc EXCEPT ![t] = "idle"]
    /\ op' = [op EXCEPT ![t] = ""]
    /\ arg' = [arg EXCEPT ![t] = NoArg]
    /\ real_count' = [real_count EXCEPT ![t] = 0]
    /\ waited' = [waited EXCEPT ![t] = FALSE]

\* the arguments a caller may pass to each member function
ArgsOf(o) ==
    CASE o \in ReadOps ->
            {[NoArg EXCEPT !.n = c] : c \in Counts}
      [] o = "Write" ->
            {[NoArg EXCEPT !.n = l, !.kind = k, !.pos = p] :
                <<l, k, p>> \in {x \in (0..MaxCount) \X WriteKinds \X (0..MaxCount) :
                    /\ nextByte + x[1] - 1 <= MaxBytes
                    /\ x[3] <= x[1]
                    /\ (x[2] # "FIFO&&" => x[3] = 0)}}
      [] o = "Seek" ->
            {[NoArg EXCEPT !.n = f, !.mode = m] : <<f, m>> \in Offsets \X Modes}
      [] o = "Skip" ->
            {[NoArg EXCEPT !.n = c] : c \in Counts}
      [] OTHER -> {NoArg}

\* the bytes of a Write payload of length n: the next n byte values
Payload(n) == [i \in 1..n |-> nextByte + i - 1]

\* every byte accepted by a Write so far, in write order
Written == [i \in 1..(nextByte - 1) |-> i]

\* the wait predicate as it would be without the m_closed test
WaitPredNoClose(n) ==
    \/ m_error
    \/ Len(m_buffer) >= m_position_offset + n

\* the predicate of m_cv.wait in SharedFIFO::Wait
WaitPred(n) ==
    \/ m_closed
    \/ m_error
    \/ Len(m_buffer) >= m_position_offset + n

\* a notification that reaches no waiter
NotifyNone(p) == p

\* m_cv.notify_all(): every thread blocked in m_cv.wait becomes runnable
NotifyAll(p) ==
    [u \in Threads |-> IF p[u] = "wait" THEN "woken" ELSE p[u]]

\* a thread enters a member function and takes m_mutex (scoped_lock / unique_lock)
Enter(t, o, a) ==
    /\ pc[t] = "idle"
    /\ m_mutex = Free
    /\ m_mutex' = t
    /\ pc' = [pc EXCEPT ![t] = "crit"]
    /\ op' = [op EXCEPT ![t] = o]
    /\ arg' = [arg EXCEPT ![t] = a]
    /\ real_count' = [real_count EXCEPT ![t] = 0]
    /\ waited' = [waited EXCEPT ![t] = FALSE]
    /\ ret' = NoRet
    /\ UNCHANGED <<fifoVars, flagVars, nextByte, collected, accepted, pipelineVars, externVars>>

\* any thread calls any member function with any arguments
Call(t) ==
    \E o \in Ops : \E a \in ArgsOf(o) : Enter(t, o, a)

\* the call of thread t returns r (a FIFO result) and releases m_mutex; a
\* collecting consumer appends the bytes of a successful result, and a consumer
\* whose loop is `if (!res.has_value()) break;` ends with the first failure
Return(t, r) ==
    /\ m_buffer' = r.buf
    /\ m_position_offset' = r.pos
    /\ ret' = [t |-> t, op |-> op[t], n |-> arg[t].n, ok |-> r.ok, err |-> r.err,
               data |-> r.data, waited |-> waited[t], val |-> FALSE]
    /\ collected' = IF arg[t].collect /\ r.ok THEN collected \o r.data ELSE collected
    /\ pc' = [pc EXCEPT ![t] = IF arg[t].loop /\ ~r.ok THEN "done" ELSE "idle"]
    /\ op' = [op EXCEPT ![t] = ""]
    /\ arg' = [arg EXCEPT ![t] = NoArg]
    /\ real_count' = [real_count EXCEPT ![t] = 0]
    /\ waited' = [waited EXCEPT ![t] = FALSE]
    /\ m_mutex' = Free
    /\ UNCHANGED <<flagVars, nextByte, accepted, pipelineVars, externVars>>

\* the base-class operation a blocking call delegates to
FIFO_Op(o, count) ==
    CASE o = "Read" -> FIFO_Read(m_buffer, m_position_offset, count)
      [] o = "Extract" -> FIFO_Extract(m_buffer, m_position_offset, count)
      [] o = "Peek" -> FIFO_Peek(m_buffer, m_position_offset, count)

\* SharedFIFO::Wait(n, lock) followed by the delegation to FIFO: returns at
\* once when n == 0 or the predicate holds, else releases m_mutex and blocks
Wait(t, n) ==
    IF n = 0 \/ WaitPred(n)
    THEN Return(t, FIFO_Op(op[t], n))
    ELSE /\ pc' = [pc EXCEPT ![t] = "wait"]
         /\ m_mutex' = Free
         /\ real_count' = [real_count EXCEPT ![t] = n]
         /\ waited' = [waited EXCEPT ![t] = TRUE]
         /\ ret' = NoRet
         /\ UNCHANGED <<fifoVars, flagVars, op, arg, nextByte, collected, accepted, pipelineVars, externVars>>

\* SharedFIFO::Read as it would be if a closed queue always reported end of file
SharedFIFO_ReadEofWhenClosed(t) ==
    /\ pc[t] = "crit"
    /\ op[t] = "Read"
    /\ LET available == AvailableBytes
           rc == IF arg[t].n = 0 THEN available ELSE arg[t].n
       IN  IF m_error
           THEN Return(t, ReadErr("Buffer in error state", m_buffer, m_position_offset))
           ELSE IF m_closed
           THEN Return(t, ReadErr("End of file reached", m_buffer, m_position_offset))
           ELSE IF rc > available
           THEN Wait(t, rc)
           ELSE Return(t, FIFO_Read(m_buffer, m_position_offset, rc))

SharedFIFO_Read(t) ==
    /\ pc[t] = "crit"
    /\ op[t] = "Read"
    /\ LET available == AvailableBytes
           rc == IF arg[t].n = 0 THEN available ELSE arg[t].n
       IN  IF m_error
           THEN Return(t, ReadErr("Buffer in error state", m_buffer, m_position_offset))
           ELSE IF m_closed /\ available = 0
           THEN Return(t, ReadErr("End of file reached", m_buffer, m_position_offset))
           ELSE IF ~m_closed /\ rc > available
           THEN Wait(t, rc)
           ELSE Return(t, FIFO_Read(m_buffer, m_position_offset, rc))

\* SharedFIFO::Extract as it would be if it left the returned bytes in the store
SharedFIFO_ExtractKeeps(t) ==
    /\ pc[t] = "crit"
    /\ op[t] = "Extract"
    /\ LET rc == IF arg[t].n = 0 THEN AvailableBytes ELSE arg[t].n
       IN  IF m_error
           THEN Return(t, ReadErr("Buffer in error state", m_buffer, m_position_offset))
           ELSE IF ~m_closed /\ arg[t].n > AvailableBytes
           THEN Wait(t, rc)
           ELSE Return(t, FIFO_Peek(m_buffer, m_position_offset, rc))

SharedFIFO_Extract(t) ==
    /\ pc[t] = "crit"
    /\ op[t] = "Extract"
    /\ LET rc == IF arg[t].n = 0 THEN AvailableBytes ELSE arg[t].n
       IN  IF m_error
           THEN Return(t, ReadErr("Buffer in error state", m_buffer, m_position_offset))
           ELSE IF ~m_closed /\ arg[t].n > AvailableBytes
           THEN Wait(t, rc)
           ELSE Return(t, FIFO_Extract(m_buffer, m_position_offset, rc))

\* SharedFIFO::Peek as it would be without the m_error test
SharedFIFO_PeekNoErrorCheck(t) ==
    /\ pc[t] = "crit"
    /\ op[t] = "Peek"
    /\ LET available == AvailableBytes
           rc == IF arg[t].n = 0 THEN available ELSE arg[t].n
       IN  IF m_closed /\ available = 0
           THEN Return(t, ReadErr("End of file reached", m_buffer, m_position_offset))
           ELSE IF ~m_closed /\ rc > available
           THEN Wait(t, rc)
           ELSE Return(t, FIFO_Peek(m_buffer, m_position_offset, rc))

SharedFIFO_Peek(t) ==
    /\ pc[t] = "crit"
    /\ op[t] = "Peek"
    /\ LET available == AvailableBytes
           rc == IF arg[t].n = 0 THEN available ELSE arg[t].n
       IN  IF m_error
           THEN Return(t, ReadErr("Buffer in error state", m_buffer, m_position_offset))
           ELSE IF m_closed /\ available = 0
           THEN Return(t, ReadErr("End of file reached", m_buffer, m_position_offset))
           ELSE IF ~m_closed /\ rc > available
           THEN Wait(t, rc)
           ELSE Return(t, FIFO_Peek(m_buffer, m_position_offset, rc))

\* a mutating call of thread t leaves its critical section with the store r,
\* releases m_mutex and goes on to m_cv.notify_all()
Unlock(t, r) ==
    /\ m_buffer' = r.buf
    /\ m_position_offset' = r.pos
    /\ ret' = NoRet
    /\ pc' = [pc EXCEPT ![t] = "notify"]
    /\ arg' = [arg EXCEPT ![t] = NoArg]
    /\ m_mutex' = Free
    /\ UNCHANGED <<op, real_count, waited, collected>>

\* what an accepted Write does to the store, per overload
WriteEffect(a) ==
    CASE a.kind = "vector" ->
            IF a.n # 0 THEN FIFO_Write(m_buffer, m_position_offset, Payload(a.n))
            ELSE [buf |-> m_buffer, pos |-> m_position_offset]
      [] a.kind = "string" ->
            IF a.n # 0 THEN FIFO_Write(m_buffer, m_position_offset, Payload(a.n))
            ELSE [buf |-> m_buffer, pos |-> m_position_offset]
      [] a.kind = "FIFO" ->
            FIFO_WriteFifo(m_buffer, m_position_offset, Payload(a.n), a.pos)
      [] a.kind = "FIFO&&" ->
            FIFO_WriteFifoMove(m_buffer, m_position_offset, Payload(a.n), a.pos)

\* the rejection test as it would be without m_error
WriteRejectedClosedOnly == m_closed

\* the rejection test as it would be without m_closed
WriteRejectedErrorOnly == m_error

\* the test `if (m_closed || m_error) return Unexpected(...)` of every Write overload
WriteRejected == m_closed \/ m_error

SharedFIFO_Write(t) ==
    /\ pc[t] = "crit"
    /\ op[t] = "Write"
    /\ IF WriteRejected
       THEN /\ ret' = [NoRet EXCEPT !.t = t, !.op = "Write", !.n = arg[t].n,
                            !.err = "Buffer is closed or in error state"]
            /\ Leave(t)
            /\ m_mutex' = Free
            /\ UNCHANGED <<fifoVars, flagVars, nextByte, collected, accepted, pipelineVars, externVars>>
       ELSE /\ Unlock(t, WriteEffect(arg[t]))
            /\ nextByte' = nextByte + arg[t].n
            /\ accepted' = IF arg[t].collect
                           THEN accepted \o [i \in 1..arg[t].n |-> t]
                           ELSE accepted
            /\ UNCHANGED <<flagVars, pipelineVars, externVars>>

SharedFIFO_Close(t) ==
    /\ pc[t] = "crit"
    /\ op[t] = "Close"
    /\ m_closed' = TRUE
    /\ Unlock(t, [buf |-> m_buffer, pos |-> m_position_offset])
    /\ UNCHANGED <<m_error, nextByte, accepted, pipelineVars, externVars>>

SharedFIFO_SetError(t) ==
    /\ pc[t] = "crit"
    /\ op[t] = "SetError"
    /\ m_error' = TRUE
    /\ Unlock(t, [buf |-> m_buffer, pos |-> m_position_offset])
    /\ UNCHANGED <<m_closed, nextByte, accepted, pipelineVars, externVars>>

\* SharedFIFO::Clear as it would be if clearing reopened the queue
SharedFIFO_ClearReopens(t) ==
    /\ pc[t] = "crit"
    /\ op[t] = "Clear"
    /\ Unlock(t, FIFO_Clear(m_buffer, m_position_offset))
    /\ m_closed' = FALSE
    /\ UNCHANGED <<m_error, nextByte, accepted, pipelineVars, externVars>>

SharedFIFO_Clear(t) ==
    /\ pc[t] = "crit"
    /\ op[t] = "Clear"
    /\ Unlock(t, FIFO_Clear(m_buffer, m_position_offset))
    /\ UNCHANGED <<flagVars, nextByte, accepted, pipelineVars, externVars>>

SharedFIFO_Clean(t) ==
    /\ pc[t] = "crit"
    /\ op[t] = "Clean"
    /\ Unlock(t, FIFO_Clean(m_buffer, m_position_offset))
    /\ UNCHANGED <<flagVars, nextByte, accepted, pipelineVars, externVars>>

\* SharedFIFO::Seek as it would be without m_cv.notify_all()
SharedFIFO_SeekSilent(t) ==
    /\ pc[t] = "crit"
    /\ op[t] = "Seek"
    /\ LET r == FIFO_Seek(m_buffer, m_position_offset, arg[t].n, arg[t].mode)
       IN  m_buffer' = r.buf /\ m_position_offset' = r.pos
    /\ ret' = [NoRet EXCEPT !.t = t, !.op = "Seek", !.ok = TRUE]
    /\ Leave(t)
    /\ m_mutex' = Free
    /\ UNCHANGED <<flagVars, nextByte, collected, accepted, pipelineVars, externVars>>

SharedFIFO_Seek(t) ==
    /\ pc[t] = "crit"
    /\ op[t] = "Seek"
    /\ Unlock(t, FIFO_Seek(m_buffer, m_position_offset, arg[t].n, arg[t].mode))
    /\ UNCHANGED <<flagVars, nextByte, accepted, pipelineVars, externVars>>

SharedFIFO_Skip(t) ==
    /\ pc[t] = "crit"
    /\ op[t] = "Skip"
    /\ Unlock(t, FIFO_Skip(m_buffer, m_position_offset, arg[t].n))
    /\ UNCHANGED <<flagVars, nextByte, accepted, pipelineVars, externVars>>

\* EoF as its header comment words it: closed or errored, and nothing available
EoFValueAsDocumented == (m_closed \/ m_error) /\ AvailableBytes = 0

\* the value SharedFIFO::EoF returns
EoFValue == m_error \/ (m_closed /\ AvailableBytes = 0)

SharedFIFO_EoF(t) ==
    /\ pc[t] = "crit"
    /\ op[t] = "EoF"
    /\ ret' = [NoRet EXCEPT !.t = t, !.op = "EoF", !.ok = TRUE, !.val = EoFValue]
    /\ Leave(t)
    /\ m_mutex' = Free
    /\ UNCHANGED <<fifoVars, flagVars, nextByte, collected, accepted, pipelineVars, externVars>>

\* m_cv.notify_all() after the lock scope of a mutating call, then return
Notify(t) ==
    /\ pc[t] = "notify"
    /\ pc' = [NotifyAll(pc) EXCEPT ![t] = "idle"]
    /\ ret' = [NoRet EXCEPT !.t = t, !.op = op[t], !.ok = TRUE]
    /\ op' = [op EXCEPT ![t] = ""]
    /\ UNCHANGED <<fifoVars, flagVars, m_mutex, arg, real_count, waited, nextByte,
                   collected, accepted, pipelineVars, externVars>>

\* std::condition_variable::wait may wake without a notification
SpuriousWakeup(t) ==
    /\ pc[t] = "wait"
    /\ pc' = [pc EXCEPT ![t] = "woken"]
    /\ ret' = NoRet
    /\ UNCHANGED <<fifoVars, flagVars, m_mutex, op, arg, real_count, waited,
                   nextByte, collected, accepted, pipelineVars, externVars>>

\* a woken waiter re-acquires m_mutex inside m_cv.wait
Relock(t) ==
    /\ pc[t] = "woken"
    /\ m_mutex = Free
    /\ m_mutex' = t
    /\ pc' = [pc EXCEPT ![t] = "recheck"]
    /\ ret' = NoRet
    /\ UNCHANGED <<fifoVars, flagVars, op, arg, real_count, waited,
                   nextByte, collected, accepted, pipelineVars, externVars>>

\* a waiter as it would be if m_cv.wait had no predicate: every wakeup ends
\* the wait
RecheckOnce(t) ==
    /\ pc[t] = "recheck"
    /\ Return(t, FIFO_Op(op[t], real_count[t]))

\* the waiter re-evaluates the predicate under the lock: blocks again or
\* leaves Wait and delegates to FIFO with real_count
Recheck(t) ==
    /\ pc[t] = "recheck"
    /\ Wait(t, real_count[t])

\* ------------------------------------------------ the queues of a Pipeline run
\* a default-constructed SharedFIFO: empty store, cursor 0, open, no error
NewQueue == [buf |-> <<>>, pos |-> 0, closed |-> FALSE, error |-> FALSE]

\* the queue the caller makes for the r-th Process call, and the queue of
\* `prod = Producer()` for stage i of that call (make_shared: a new object)
InputOf(r) == <<r, 0>>
ProducerOf(r, i) == <<r, i>>

\* a Consumer that was not returned yet
NoQueue == <<>>

NoPRet == [op |-> "", n |-> 0, ok |-> FALSE, waited |-> FALSE, returned |-> FALSE]

\* ------------------------------------------------ single-threaded programs
\* a program that has not started its Read / Seek / Read sequence
NoScript == [pc |-> "setup", n |-> 0, first |-> <<>>, ok |-> FALSE, second |-> <<>>]

\* no Bridge has been constructed
NoBridge == [live |-> FALSE, m_chunk_size |-> 0, m_buffer |-> <<>>, obtained |-> <<>>,
             written |-> <<>>, last |-> "", ok |-> FALSE]

\* no ExternalProducer has been constructed
NoXP == [pc |-> "none", q |-> NewQueue, chunk |-> <<>>, has_error |-> FALSE, why |-> "",
         handed |-> <<>>, appended |-> <<>>, ended |-> <<>>]

\* the Consumer's thread is not inside a call
NoCons == [pc |-> "idle", op |-> "", count |-> 0, result |-> <<>>, out_closed |-> FALSE]

ExternInit ==
    /\ script = NoScript
    /\ bridge = NoBridge
    /\ xp = NoXP
    /\ cons = NoCons

\* a default-constructed Pipeline; no Process call was made yet
PipelineInit ==
    /\ m_pipes = <<>>
    /\ m_producers = <<>>
    /\ m_threads = <<>>
    /\ queues = [q \in {} |-> NewQueue]
    /\ stages = [i \in {} |-> NewQueue]
    /\ ppc = "idle"
    /\ run_mode = ""
    /\ stage_i = 0
    /\ input = NoQueue
    /\ result = NoQueue
    /\ output = <<>>
    /\ fed = 0
    /\ runs = 0
    /\ pret = NoPRet
    /\ terminated = FALSE
    /\ cancel = 0

Init ==
    /\ m_buffer = <<>>
    /\ m_position_offset = 0
    /\ m_closed = FALSE
    /\ m_error = FALSE
    /\ m_mutex = Free
    /\ pc = [t \in Threads |-> "idle"]
    /\ op = [t \in Threads |-> ""]
    /\ arg = [t \in Threads |-> NoArg]
    /\ real_count = [t \in Threads |-> 0]
    /\ waited = [t \in Threads |-> FALSE]
    /\ ret = NoRet
    /\ nextByte = 1
    /\ collected = <<>>
    /\ accepted = <<>>
    /\ PipelineInit
    /\ ExternInit

Next ==
    \E t \in Pair :
        \/ Call(t)
        \/ SharedFIFO_Read(t)
        \/ SharedFIFO_Extract(t)
        \/ SharedFIFO_Peek(t)
        \/ SharedFIFO_Write(t)
        \/ SharedFIFO_Close(t)
        \/ SharedFIFO_SetError(t)
        \/ SharedFIFO_Clear(t)
        \/ SharedFIFO_Clean(t)
        \/ SharedFIFO_Seek(t)
        \/ SharedFIFO_Skip(t)
        \/ SharedFIFO_EoF(t)
        \/ Notify(t)
        \/ SpuriousWakeup(t)
        \/ Relock(t)
        \/ Recheck(t)

Spec == Init /\ [][Next]_vars

\* ------------------------------------- one producer thread, one consumer thread
\* (test_shared_fifo_producer_consumer_blocking, test_shared_fifo_growth_under_contention)

\* the producer thread writes a payload or closes the queue; a payload FIFO is
\* freshly built (its cursor is 0), so the bytes written are its whole store
ProducerCall ==
    \/ \E a \in {x \in ArgsOf("Write") : x.pos = 0} : Enter(Writer, "Write", a)
    \/ Enter(Writer, "Close", NoArg)

\* the consumer thread reads or extracts and appends each result to collected
ConsumerCall ==
    \E o \in {"Read", "Extract"} : \E c \in Counts :
        Enter(Reader, o, [NoArg EXCEPT !.n = c, !.collect = TRUE])

NextPC ==
    \/ ProducerCall
    \/ ConsumerCall
    \/ \E t \in Pair :
        \/ SharedFIFO_Read(t)
        \/ SharedFIFO_Extract(t)
        \/ SharedFIFO_Write(t)
        \/ SharedFIFO_Close(t)
        \/ Notify(t)
        \/ SpuriousWakeup(t)
        \/ Relock(t)
        \/ Recheck(t)

SpecPC == Init /\ [][NextPC]_vars

\* ------------------------------ a blocked Extract and the calls that wake it
\* (test_shared_fifo_extract_blocking_and_close)

WaiterCall ==
    \E c \in Counts : Enter(Reader, "Extract", [NoArg EXCEPT !.n = c])

WakerCall ==
    \E o \in {"Write", "Close", "SetError"} : \E a \in ArgsOf(o) : Enter(Writer, o, a)

NextWake ==
    \/ WaiterCall
    \/ WakerCall
    \/ \E t \in Pair :
        \/ SharedFIFO_Extract(t)
        \/ SharedFIFO_Write(t)
        \/ SharedFIFO_Close(t)
        \/ SharedFIFO_SetError(t)
        \/ Notify(t)
        \/ SpuriousWakeup(t)
        \/ Relock(t)
        \/ Recheck(t)

\* a thread inside a call keeps running (the scheduler is fair), and a thread
\* that tries to lock m_mutex infinitely often while it is free gets it
FairWake ==
    \A t \in Pair :
        /\ WF_vars(SharedFIFO_Extract(t))
        /\ WF_vars(SharedFIFO_Write(t))
        /\ WF_vars(SharedFIFO_Close(t))
        /\ WF_vars(SharedFIFO_SetError(t))
        /\ WF_vars(Notify(t))
        /\ WF_vars(Recheck(t))
        /\ SF_vars(Relock(t))

SpecWake == Init /\ [][NextWake]_vars /\ FairWake

\* ------------------- one producer, two consumers that extract byte by byte
\* (test_shared_fifo_multiple_consumers_total_coverage)
Consumers == {Reader, Third}

\* the producer thread writes, then closes the queue and ends
MCProducerCall ==
    /\ ~m_closed
    /\ \/ \E a \in {x \in ArgsOf("Write") : x.kind = "string" /\ x.n > 0} :
              Enter(Writer, "Write", a)
       \/ Enter(Writer, "Close", NoArg)

\* a consumer thread: `res = fifo.Extract(1, part); if (!res.has_value()) break;`
MCConsumerCall(t) ==
    Enter(t, "Extract", [NoArg EXCEPT !.n = 1, !.collect = TRUE, !.loop = TRUE])

NextMC ==
    \/ MCProducerCall
    \/ \E t \in Consumers : MCConsumerCall(t)
    \/ \E t \in Threads :
        \/ SharedFIFO_Extract(t)
        \/ SharedFIFO_Write(t)
        \/ SharedFIFO_Close(t)
        \/ Notify(t)
        \/ SpuriousWakeup(t)
        \/ Relock(t)
        \/ Recheck(t)

\* every thread keeps running, a thread that tries to lock m_mutex infinitely
\* often while it is free gets it, and the producer reaches its fifo.Close()
FairMC ==
    /\ SF_vars(Enter(Writer, "Close", NoArg))
    /\ \A t \in Consumers : SF_vars(MCConsumerCall(t))
    /\ \A t \in Threads :
        /\ WF_vars(SharedFIFO_Extract(t))
        /\ WF_vars(SharedFIFO_Write(t))
        /\ WF_vars(SharedFIFO_Close(t))
        /\ WF_vars(Notify(t))
        /\ WF_vars(Recheck(t))
        /\ SF_vars(Relock(t))

SpecMC == Init /\ [][NextMC]_vars /\ FairMC

\* ------------------------------- two producers, one consumer that extracts
\* (test_shared_fifo_multi_producer_single_consumer_counts)
Writers == {Writer, Third}

\* a producer thread writes a recorded payload; the queue is closed at any time
MWProducerCall(t) ==
    \/ \E a \in {x \in ArgsOf("Write") : x.kind = "string" /\ x.n > 0} :
           Enter(t, "Write", [a EXCEPT !.collect = TRUE])
    \/ Enter(t, "Close", NoArg)

MWConsumerCall ==
    Enter(Reader, "Extract", [NoArg EXCEPT !.n = 1, !.collect = TRUE, !.loop = TRUE])

NextMW ==
    \/ \E t \in Writers : MWProducerCall(t)
    \/ MWConsumerCall
    \/ \E t \in Threads :
        \/ SharedFIFO_Extract(t)
        \/ SharedFIFO_Write(t)
        \/ SharedFIFO_Close(t)
        \/ Notify(t)
        \/ SpuriousWakeup(t)
        \/ Relock(t)
        \/ Recheck(t)

SpecMW == Init /\ [][NextMW]_vars

\* --------------------- a SharedFIFO used through the members it inherits
\* FIFO::Span, which SharedFIFO inherits and does not override, takes no lock:
\* its bounds test and its cursor update are separate accesses of the queue
FIFO_SpanCheck(t) ==
    /\ pc[t] = "idle"
    /\ \E count \in Counts :
        LET available == AvailableBytes
            rc == IF count = 0 THEN available ELSE count
        IN  IF available = 0 \/ rc > available
            THEN /\ ret' = [NoRet EXCEPT !.t = t, !.op = "Span", !.n = count,
                                         !.err = "Insufficient data to read"]
                 /\ UNCHANGED <<pc, op, real_count>>
            ELSE /\ pc' = [pc EXCEPT ![t] = "span"]
                 /\ op' = [op EXCEPT ![t] = "Span"]
                 /\ real_count' = [real_count EXCEPT ![t] = rc]
                 /\ ret' = NoRet
    /\ UNCHANGED <<fifoVars, flagVars, m_mutex, arg, waited, nextByte, collected,
                   accepted, pipelineVars, externVars>>

\* m_position_offset += real_count; return the span
FIFO_SpanAdvance(t) ==
    /\ pc[t] = "span"
    /\ m_position_offset' = m_position_offset + real_count[t]
    /\ ret' = [NoRet EXCEPT !.t = t, !.op = "Span", !.n = real_count[t], !.ok = TRUE]
    /\ pc' = [pc EXCEPT ![t] = "idle"]
    /\ op' = [op EXCEPT ![t] = ""]
    /\ real_count' = [real_count EXCEPT ![t] = 0]
    /\ UNCHANGED <<m_buffer, flagVars, m_mutex, arg, waited, nextByte, collected,
                   accepted, pipelineVars, externVars>>

NextSpan ==
    \/ Next
    \/ \E t \in Pair :
        \/ FIFO_SpanCheck(t)
        \/ FIFO_SpanAdvance(t)

SpecSpan == Init /\ [][NextSpan]_vars

\* =============================================== Pipeline (pipeline.cxx)
\* Stage i of the code (counted from 0) is element i + 1 of m_pipes here. Every
\* call on a queue of a run is one step: it is one critical section under that
\* queue's mutex, and a blocking call is the step of its last critical section.

ExecutionModes == {"Sync", "Async"}

\* the stage functions a caller adds: "append" copies its input to EoF, appends
\* its suffix and closes its output (it errors its output instead when its
\* input is errored); "fail" errors its output without reading or writing
PipeFunctions == {"append", "fail"}

\* the byte stage i appends (the "-S{i}" of the stage)
Suffix(i) == 0 - i

\* ---- the SharedFIFO members, on the queue record q
Q_AvailableBytes(q) == FIFO_AvailableBytes(q.buf, q.pos)

\* the predicate of m_cv.wait as it would be without the m_closed test
Q_WaitPredNoClose(q, n) ==
    q.error \/ Len(q.buf) >= q.pos + n

Q_WaitPred(q, n) ==
    q.closed \/ q.error \/ Len(q.buf) >= q.pos + n

\* EoF as it would be if an errored queue were not at EoF
Q_EoFClosedOnly(q) == q.closed /\ Q_AvailableBytes(q) = 0

Q_EoF(q) == q.error \/ (q.closed /\ Q_AvailableBytes(q) = 0)

Q_IsReadable(q) == ~q.error

Q_Write(q, data) ==
    IF q.closed \/ q.error THEN q
    ELSE [q EXCEPT !.buf = FIFO_Write(q.buf, q.pos, data).buf]

Q_Close(q) == [q EXCEPT !.closed = TRUE]

\* SetError as it would be if it left the flag alone
Q_SetErrorNothing(q) == q

Q_SetError(q) == [q EXCEPT !.error = TRUE]

Q_Op(q, o, rc) ==
    CASE o = "Read" -> FIFO_Read(q.buf, q.pos, rc)
      [] o = "Extract" -> FIFO_Extract(q.buf, q.pos, rc)
      [] o = "Peek" -> FIFO_Peek(q.buf, q.pos, rc)

\* Read / Extract / Peek (o) of count n up to Wait(): the call blocks, or
\* returns r at once
Q_Call(q, o, n) ==
    LET available == Q_AvailableBytes(q)
        rc == IF n = 0 THEN available ELSE n
    IN  IF q.error
        THEN [blocks |-> FALSE, r |-> ReadErr("Buffer in error state", q.buf, q.pos)]
        ELSE IF o # "Extract" /\ q.closed /\ available = 0
        THEN [blocks |-> FALSE, r |-> ReadErr("End of file reached", q.buf, q.pos)]
        ELSE IF ~q.closed /\ rc > available
        THEN [blocks |-> TRUE, r |-> ReadErr("", q.buf, q.pos)]
        ELSE [blocks |-> FALSE, r |-> Q_Op(q, o, rc)]

\* the queue after a call returned r
Q_After(q, r) == [q EXCEPT !.buf = r.buf, !.pos = r.pos]

\* ---- the stage functions (pipeline.hxx, "Pipe function signature")
pipeObj == <<m_pipes, m_producers, m_threads>>
callVars == <<run_mode, stage_i, input, result, output, runs, terminated>>

\* pret describes a call that returned in the last step, or the call the
\* caller is blocked in
Forget == pret' = IF ppc = "reading" THEN pret ELSE NoPRet

\* stage i was started and is at position p of its function
Running(i, p) == ~terminated /\ i \in DOMAIN stages /\ stages[i].pc = p

\* while (!in.EoF())
StageEoF(i) ==
    /\ Running(i, "eof")
    /\ stages' = [stages EXCEPT ![i].pc =
                     IF Q_EoF(queues[stages[i].in]) THEN "tail" ELSE "extract"]
    /\ Forget
    /\ UNCHANGED <<sharedVars, externVars, cancel, pipeObj, callVars, fed, ppc, queues>>

\* in.Extract(1) of stage i returned r: on success the data is written next
StageGot(i, r) ==
    /\ queues' = [queues EXCEPT ![stages[i].in] = Q_After(@, r)]
    /\ stages' = [stages EXCEPT ![i].pc = IF r.ok THEN "write" ELSE "eof",
                                ![i].data = r.data]

\* auto data = in.Extract(1)
StageExtract(i) ==
    /\ Running(i, "extract")
    /\ LET c == Q_Call(queues[stages[i].in], "Extract", 1)
       IN  IF c.blocks
           THEN /\ stages' = [stages EXCEPT ![i].pc = "blocked"]
                /\ UNCHANGED queues
           ELSE StageGot(i, c.r)
    /\ Forget
    /\ UNCHANGED <<sharedVars, externVars, cancel, pipeObj, callVars, fed, ppc>>

\* the blocked Extract of stage i leaves m_cv.wait and returns
StageWake(i) ==
    /\ Running(i, "blocked")
    /\ Q_WaitPred(queues[stages[i].in], 1)
    /\ StageGot(i, Q_Op(queues[stages[i].in], "Extract", 1))
    /\ Forget
    /\ UNCHANGED <<sharedVars, externVars, cancel, pipeObj, callVars, fed, ppc>>

\* out.Write(*data)
StageWrite(i) ==
    /\ Running(i, "write")
    /\ queues' = [queues EXCEPT ![stages[i].out] = Q_Write(@, stages[i].data)]
    /\ stages' = [stages EXCEPT ![i].pc = "eof", ![i].data = <<>>]
    /\ Forget
    /\ UNCHANGED <<sharedVars, externVars, cancel, pipeObj, callVars, fed, ppc>>

\* after the loop: an errored input is propagated with out.SetError(),
\* otherwise the stage writes its suffix
StageTail(i) ==
    /\ Running(i, "tail")
    /\ IF Q_IsReadable(queues[stages[i].in])
       THEN /\ queues' = [queues EXCEPT ![stages[i].out] = Q_Write(@, <<Suffix(i)>>)]
            /\ stages' = [stages EXCEPT ![i].pc = "close"]
       ELSE /\ queues' = [queues EXCEPT ![stages[i].out] = Q_SetError(@)]
            /\ stages' = [stages EXCEPT ![i].pc = "ret"]
    /\ Forget
    /\ UNCHANGED <<sharedVars, externVars, cancel, pipeObj, callVars, fed, ppc>>

\* out.Close()
StageClose(i) ==
    /\ Running(i, "close")
    /\ queues' = [queues EXCEPT ![stages[i].out] = Q_Close(@)]
    /\ stages' = [stages EXCEPT ![i].pc = "ret"]
    /\ Forget
    /\ UNCHANGED <<sharedVars, externVars, cancel, pipeObj, callVars, fed, ppc>>

\* a failing stage: out.SetError() instead of writing
StageFail(i) ==
    /\ Running(i, "fail")
    /\ queues' = [queues EXCEPT ![stages[i].out] = Q_SetError(@)]
    /\ stages' = [stages EXCEPT ![i].pc = "ret"]
    /\ Forget
    /\ UNCHANGED <<sharedVars, externVars, cancel, pipeObj, callVars, fed, ppc>>

\* the stage function returns: a worker thread ends, the caller of an inline
\* stage goes on in Process
StageReturn(i) ==
    /\ Running(i, "ret")
    /\ stages' = [stages EXCEPT ![i].pc = "done"]
    /\ ppc' = IF stages[i].inline THEN "join" ELSE ppc
    /\ Forget
    /\ UNCHANGED <<sharedVars, externVars, cancel, pipeObj, callVars, fed, queues>>

\* ---- the thread that owns the Pipeline
\* the caller is at position p of its code
At(p) == ~terminated /\ ppc = p

\* the queues some handle refers to: shared_ptr<SharedFIFO> frees the others
LiveQueues(inp, res, prods, stgs) ==
    ({inp, res} \cup {prods[i] : i \in DOMAIN prods}
               \cup {stgs[i].in : i \in DOMAIN stgs}
               \cup {stgs[i].out : i \in DOMAIN stgs}) \ {NoQueue}

\* the queues of live after the step: those of qs and new, empty ones
Alive(qs, live) ==
    [q \in live |-> IF q \in DOMAIN qs THEN qs[q] ELSE NewQueue]

\* AddPipe as it would be if it made the Producer of the new stage as well
AddPipeWithProducer(fn) ==
    /\ At("idle")
    /\ Len(m_pipes) < MaxStages
    /\ m_pipes' = Append(m_pipes, fn)
    /\ m_producers' = Append(m_producers, ProducerOf(0, Len(m_producers) + 1))
    /\ queues' = Alive(queues, LiveQueues(input, result, m_producers', stages))
    /\ pret' = NoPRet
    /\ UNCHANGED <<sharedVars, externVars, cancel, m_threads, stages, ppc, run_mode, stage_i, input, result,
                   output, fed, runs, terminated>>

\* Pipeline::AddPipe
AddPipe(fn) ==
    /\ At("idle")
    /\ Len(m_pipes) < MaxStages
    /\ m_pipes' = Append(m_pipes, fn)
    /\ pret' = NoPRet
    /\ UNCHANGED <<sharedVars, externVars, cancel, m_producers, m_threads, queues, stages, ppc, run_mode,
                   stage_i, input, result, output, fed, runs, terminated>>

\* the caller lets go of the Consumer of the previous run, makes an input
\* queue and calls Process(buffer, mode, log)
ProcessCall(m) ==
    /\ At("idle")
    /\ runs < MaxRuns
    /\ runs' = runs + 1
    /\ input' = InputOf(runs + 1)
    /\ fed' = 0
    /\ run_mode' = m
    /\ output' = <<>>
    /\ pret' = NoPRet
    /\ ppc' = "wait_process"
    /\ result' = NoQueue
    /\ queues' = Alive(queues, LiveQueues(InputOf(runs + 1), NoQueue, m_producers, stages))
    /\ UNCHANGED <<sharedVars, externVars, cancel, pipeObj, stages, stage_i, terminated>>

\* every joinable std::thread of m_threads has finished its stage function
Joined ==
    \A k \in DOMAIN m_threads :
        m_threads[k].joinable => stages[m_threads[k].stage].pc = "done"

\* Pipeline::WaitForCompletion: join every joinable thread, m_threads.clear();
\* called by Process, by the destructor and by the copy assignment
WaitForCompletion ==
    /\ ~terminated
    /\ ppc \in {"wait_process", "wait_dtor", "wait_assign"}
    /\ Joined
    /\ m_threads' = <<>>
    /\ ppc' = CASE ppc = "wait_process" -> "setup"
                [] ppc = "wait_dtor" -> "destroyed"
                [] ppc = "wait_assign" -> "idle"
    /\ UNCHANGED <<sharedVars, externVars, cancel, m_pipes, m_producers, queues, stages, callVars, fed, pret>>

\* Process as it would be if an empty pipeline handed out a queue of its own
ProcessSetupCopy ==
    /\ At("setup")
    /\ IF m_pipes = <<>>
       THEN /\ result' = ProducerOf(runs, 1)
            /\ ppc' = "idle"
            /\ queues' = Alive(queues, LiveQueues(input, result', m_producers, stages))
            /\ UNCHANGED <<m_producers, stages, stage_i>>
       ELSE /\ m_producers' = [i \in 1..Len(m_pipes) |-> ProducerOf(runs, i)]
            /\ stages' = [i \in {} |-> NewQueue]
            /\ stage_i' = 1
            /\ ppc' = "spawn"
            /\ queues' = Alive(queues, LiveQueues(input, result, m_producers', stages'))
            /\ UNCHANGED result
    /\ UNCHANGED <<sharedVars, externVars, cancel, m_pipes, m_threads, run_mode, input, output, fed, runs,
                   pret, terminated>>

\* Process as it would be if it kept the Producers of the previous run
ProcessSetupReuse ==
    /\ At("setup")
    /\ IF m_pipes = <<>>
       THEN /\ result' = input
            /\ ppc' = "idle"
            /\ queues' = Alive(queues, LiveQueues(input, input, m_producers, stages))
            /\ UNCHANGED <<m_producers, stages, stage_i>>
       ELSE /\ m_producers' = [i \in 1..Len(m_pipes) |->
                                 IF i \in DOMAIN m_producers THEN m_producers[i]
                                 ELSE ProducerOf(runs, i)]
            /\ stages' = [i \in {} |-> NewQueue]
            /\ stage_i' = 1
            /\ ppc' = "spawn"
            /\ queues' = Alive(queues, LiveQueues(input, result, m_producers', stages'))
            /\ UNCHANGED result
    /\ UNCHANGED <<sharedVars, externVars, cancel, m_pipes, m_threads, run_mode, input, output, fed, runs,
                   pret, terminated>>

\* Process after WaitForCompletion: the passthrough of an empty pipeline, or
\* one new Producer per stage and an empty m_threads
ProcessSetup ==
    /\ At("setup")
    /\ IF m_pipes = <<>>
       THEN /\ result' = input
            /\ ppc' = "idle"
            /\ queues' = Alive(queues, LiveQueues(input, input, m_producers, stages))
            /\ UNCHANGED <<m_producers, stages, stage_i>>
       ELSE /\ m_producers' = [i \in 1..Len(m_pipes) |-> ProducerOf(runs, i)]
            /\ stages' = [i \in {} |-> NewQueue]
            /\ stage_i' = 1
            /\ ppc' = "spawn"
            /\ queues' = Alive(queues, LiveQueues(input, result, m_producers', stages'))
            /\ UNCHANGED result
    /\ UNCHANGED <<sharedVars, externVars, cancel, m_pipes, m_threads, run_mode, input, output, fed, runs,
                   pret, terminated>>

\* the wiring as it would be if every stage read the caller's input
StageInSame(i) == input

\* Consumer stage_in = (i == 0) ? buffer : m_producers[i - 1].Consumer()
StageIn(i) == IF i = 1 THEN input ELSE m_producers[i - 1]

\* one iteration of the loop over the stages: a worker thread for every stage
\* but the last and for the last one under Async; under Sync the last stage
\* is called inline
Spawn ==
    /\ At("spawn")
    /\ stage_i <= Len(m_pipes)
    /\ LET i == stage_i
           last == i = Len(m_pipes)
           inl == last /\ run_mode = "Sync"
           st == [fn |-> m_pipes[i], in |-> StageIn(i), out |-> m_producers[i],
                  pc |-> IF m_pipes[i] = "append" THEN "eof" ELSE "fail",
                  data |-> <<>>, inline |-> inl, dangling |-> FALSE]
       IN  /\ stages' = [j \in DOMAIN stages \cup {i} |->
                            IF j = i THEN st ELSE stages[j]]
           /\ m_threads' = IF inl THEN m_threads
                           ELSE Append(m_threads, [stage |-> i, joinable |-> TRUE])
           /\ stage_i' = i + 1
           /\ ppc' = IF inl THEN "inline" ELSE IF last THEN "return" ELSE "spawn"
    /\ UNCHANGED <<sharedVars, externVars, cancel, m_pipes, m_producers, queues, run_mode, input, result,
                   output, fed, runs, pret, terminated>>

\* the end of a Sync Process as it would be without the join
ProcessJoinNoWait ==
    /\ At("join")
    /\ m_threads' = <<>>
    /\ ppc' = "return"
    /\ UNCHANGED <<sharedVars, externVars, cancel, m_pipes, m_producers, queues, stages, callVars, fed, pret>>

\* Sync, after the inline stage: join every worker, m_threads.clear()
ProcessJoin ==
    /\ At("join")
    /\ Joined
    /\ m_threads' = <<>>
    /\ ppc' = "return"
    /\ UNCHANGED <<sharedVars, externVars, cancel, m_pipes, m_producers, queues, stages, callVars, fed, pret>>

\* return m_producers.back().Consumer()
ProcessReturn ==
    /\ At("return")
    /\ result' = m_producers[Len(m_producers)]
    /\ ppc' = "idle"
    /\ queues' = Alive(queues, LiveQueues(input, result', m_producers, stages))
    /\ UNCHANGED <<sharedVars, externVars, cancel, pipeObj, stages, run_mode, stage_i, input, output, fed,
                   runs, pret, terminated>>

\* the caller calls Pipeline::SetError()
PipelineSetErrorCall ==
    /\ At("idle")
    /\ m_producers # <<>>
    /\ ppc' = "seterror"
    /\ stage_i' = 1
    /\ pret' = NoPRet
    /\ UNCHANGED <<sharedVars, externVars, cancel, pipeObj, queues, stages, run_mode, input, result, output,
                   fed, runs, terminated>>

\* Pipeline::SetError as it would be if it errored the first Producer only
PipelineSetErrorFirstOnly ==
    /\ At("seterror")
    /\ queues' = [queues EXCEPT ![m_producers[stage_i]] =
                     IF stage_i = 1 THEN Q_SetError(@) ELSE @]
    /\ stage_i' = stage_i + 1
    /\ ppc' = IF stage_i = Len(m_producers) THEN "idle" ELSE "seterror"
    /\ UNCHANGED <<sharedVars, externVars, cancel, pipeObj, stages, run_mode, input, result, output, fed,
                   runs, pret, terminated>>

\* one iteration of `for (auto& producer : m_producers) producer.SetError();`,
\* the last one returns
PipelineSetError ==
    /\ At("seterror")
    /\ queues' = [queues EXCEPT ![m_producers[stage_i]] = Q_SetError(@)]
    /\ stage_i' = stage_i + 1
    /\ ppc' = IF stage_i = Len(m_producers) THEN "idle" ELSE "seterror"
    /\ UNCHANGED <<sharedVars, externVars, cancel, pipeObj, stages, run_mode, input, result, output, fed,
                   runs, pret, terminated>>

\* a second thread calls Pipeline::SetError() on the same Pipeline
CancelCall ==
    /\ ~terminated
    /\ cancel = 0
    /\ ppc # "destroyed"
    /\ cancel' = 1
    /\ Forget
    /\ UNCHANGED <<sharedVars, externVars, pipeObj, stages, ppc, callVars, fed, queues>>

\* its loop `for (auto& producer : m_producers) producer.SetError();` reads
\* m_producers without any lock: one iteration, or the end of the loop
CancelStep ==
    /\ ~terminated
    /\ cancel > 0
    /\ IF cancel <= Len(m_producers)
       THEN /\ queues' = [queues EXCEPT ![m_producers[cancel]] = Q_SetError(@)]
            /\ cancel' = cancel + 1
       ELSE /\ cancel' = 0
            /\ UNCHANGED queues
    /\ Forget
    /\ UNCHANGED <<sharedVars, externVars, pipeObj, stages, ppc, callVars, fed>>

\* Process clears and refills m_producers while the loop of the second thread
\* is inside it: a data race on the vector. The loop may go on over the new
\* elements (ProcessSetup and CancelStep), or its iterator into the freed
\* storage crashes the program
ProcessSetupRace ==
    /\ At("setup")
    /\ m_pipes # <<>>
    /\ cancel > 0
    /\ terminated' = TRUE
    /\ pret' = NoPRet
    /\ UNCHANGED <<sharedVars, externVars, cancel, pipeObj, queues, stages, ppc, run_mode, stage_i,
                   input, result, output, fed, runs>>

\* the Pipeline goes out of scope: ~Pipeline calls WaitForCompletion
Destructor ==
    /\ At("idle")
    /\ ppc' = "wait_dtor"
    /\ pret' = NoPRet
    /\ UNCHANGED <<sharedVars, externVars, cancel, pipeObj, queues, stages, run_mode, stage_i, input, result,
                   output, fed, runs, terminated>>

\* the m_pipes of the Pipeline objects assigned from: a new one, and one with
\* a stage that was never run
Others == {<<>>, <<"append">>}

\* Pipeline::operator=(const Pipeline&): m_pipes and m_producers are copied,
\* then WaitForCompletion joins the threads of this object
CopyAssign(other) ==
    /\ At("idle")
    /\ m_pipes' = other
    /\ m_producers' = <<>>
    /\ ppc' = "wait_assign"
    /\ pret' = NoPRet
    /\ queues' = Alive(queues, LiveQueues(input, result, <<>>, stages))
    /\ UNCHANGED <<sharedVars, externVars, cancel, m_threads, stages, callVars, fed>>

\* Pipeline::operator=(Pipeline&&) = default: the members are move-assigned
\* one by one. Assigning to m_threads destroys the std::thread objects it
\* holds, and ~thread() of a joinable thread calls std::terminate()
MoveAssign(other) ==
    /\ At("idle")
    /\ m_pipes' = other
    /\ m_producers' = <<>>
    /\ m_threads' = <<>>
    /\ terminated' = \E k \in DOMAIN m_threads : m_threads[k].joinable
    /\ pret' = NoPRet
    /\ queues' = Alive(queues, LiveQueues(input, result, <<>>, stages))
    /\ UNCHANGED <<sharedVars, externVars, cancel, stages, ppc, run_mode, stage_i, input, result, output,
                   runs, fed>>

\* the counts of the caller's calls on the returned Consumer: everything that
\* is available, or one byte
ResultCounts == {0, 1}

\* the caller's call o(n) on the returned Consumer returned r; the caller
\* keeps the bytes it read or extracted
ResultGot(o, n, r, w) ==
    /\ queues' = [queues EXCEPT ![result] = Q_After(@, r)]
    /\ pret' = [op |-> o, n |-> n, ok |-> r.ok, waited |-> w, returned |-> TRUE]
    /\ output' = IF r.ok /\ o # "Peek" THEN output \o r.data ELSE output
    /\ ppc' = "idle"

\* the caller calls Read, Extract or Peek on the Consumer Process returned
ResultCall(o, n) ==
    /\ At("idle")
    /\ result # NoQueue
    /\ LET c == Q_Call(queues[result], o, n)
       IN  IF c.blocks
           THEN /\ ppc' = "reading"
                /\ pret' = [op |-> o, n |-> n, ok |-> FALSE, waited |-> TRUE,
                            returned |-> FALSE]
                /\ UNCHANGED <<queues, output>>
           ELSE ResultGot(o, n, c.r, FALSE)
    /\ UNCHANGED <<sharedVars, externVars, cancel, pipeObj, stages, run_mode, stage_i, input, result, fed,
                   runs, terminated>>

\* the caller's blocked call leaves m_cv.wait and returns
ResultWake ==
    /\ At("reading")
    /\ Q_WaitPred(queues[result], pret.n)
    /\ ResultGot(pret.op, pret.n, Q_Op(queues[result], pret.op, pret.n), TRUE)
    /\ UNCHANGED <<sharedVars, externVars, cancel, pipeObj, stages, run_mode, stage_i, input, result, fed,
                   runs, terminated>>

\* Consumer::Close() on the Consumer Process returned: m_buffer->Close()
ConsumerClose ==
    /\ At("idle")
    /\ result # NoQueue
    /\ queues' = [queues EXCEPT ![result] = Q_Close(@)]
    /\ pret' = NoPRet
    /\ UNCHANGED <<sharedVars, externVars, cancel, pipeObj, stages, ppc, callVars, fed>>

\* the operations of a Producer
ProducerOps == {"Write", "SetError"}

\* Producer(const Consumer&) shares the Consumer's m_buffer: the caller makes
\* a Producer from the Consumer Process returned and calls o on it (it writes
\* the byte 0, once)
ProducerOfConsumer(o) ==
    /\ At("idle")
    /\ result # NoQueue
    /\ o = "Write" => \A k \in DOMAIN output : output[k] # 0
    /\ o = "Write" => \A k \in DOMAIN queues[result].buf : queues[result].buf[k] # 0
    /\ queues' = [queues EXCEPT ![result] =
                     IF o = "Write" THEN Q_Write(@, <<0>>) ELSE Q_SetError(@)]
    /\ pret' = NoPRet
    /\ UNCHANGED <<sharedVars, externVars, cancel, pipeObj, stages, ppc, callVars, fed>>

\* ---- the thread that fills the input queue of the run
Feeding ==
    /\ ~terminated
    /\ input \in DOMAIN queues
    /\ ~queues[input].closed
    /\ ~queues[input].error

FeedWrite ==
    /\ Feeding
    /\ fed < MaxInput
    /\ queues' = [queues EXCEPT ![input] = Q_Write(@, <<fed + 1>>)]
    /\ fed' = fed + 1
    /\ Forget
    /\ UNCHANGED <<sharedVars, externVars, cancel, pipeObj, stages, ppc, callVars>>

FeedClose ==
    /\ Feeding
    /\ queues' = [queues EXCEPT ![input] = Q_Close(@)]
    /\ Forget
    /\ UNCHANGED <<sharedVars, externVars, cancel, pipeObj, stages, ppc, callVars, fed>>

FeedSetError ==
    /\ Feeding
    /\ queues' = [queues EXCEPT ![input] = Q_SetError(@)]
    /\ Forget
    /\ UNCHANGED <<sharedVars, externVars, cancel, pipeObj, stages, ppc, callVars, fed>>

\* the parameter `log` of Process exists from the call to its return; the
\* stages at hand while Process waits for the previous run are those of that
\* run, whose `log` is gone
LogAlive == ppc \in {"setup", "spawn", "inline", "join", "return"}

\* the stage function uses its Logger::Log& argument: the worker lambda
\* holds `log` by reference (&log), so this reads the parameter of Process.
\* After Process has returned the read is undefined: the stage goes on with
\* whatever it read, or the program crashes
StageLog(i) ==
    /\ ~terminated
    /\ i \in DOMAIN stages
    /\ stages[i].pc \notin {"ret", "done"}
    /\ IF LogAlive
       THEN UNCHANGED <<stages, terminated>>
       ELSE /\ stages' = [stages EXCEPT ![i].dangling = TRUE]
            /\ terminated' \in BOOLEAN
    /\ Forget
    /\ UNCHANGED <<sharedVars, externVars, cancel, pipeObj, run_mode, stage_i, input, result, output, runs,
                   fed, ppc, queues>>

StageStep(i) ==
    \/ StageEoF(i)
    \/ StageExtract(i)
    \/ StageWake(i)
    \/ StageWrite(i)
    \/ StageTail(i)
    \/ StageClose(i)
    \/ StageFail(i)
    \/ StageReturn(i)

\* a run without failures from outside: the caller adds stages, calls Process,
\* drains the returned Consumer with Extract and destroys the Pipeline
NextRun ==
    \/ \E fn \in PipeFunctions : AddPipe(fn)
    \/ \E m \in ExecutionModes : ProcessCall(m)
    \/ WaitForCompletion
    \/ ProcessSetup
    \/ Spawn
    \/ ProcessJoin
    \/ ProcessReturn
    \/ Destructor
    \/ \E n \in ResultCounts : ResultCall("Extract", n)
    \/ ResultWake
    \/ FeedWrite
    \/ FeedClose
    \/ \E i \in 1..MaxStages : StageStep(i)

SpecRun == Init /\ [][NextRun]_vars

\* runs that the caller cancels with Pipeline::SetError()
NextCancel ==
    \/ \E fn \in PipeFunctions : AddPipe(fn)
    \/ \E m \in ExecutionModes : ProcessCall(m)
    \/ WaitForCompletion
    \/ ProcessSetup
    \/ Spawn
    \/ ProcessJoin
    \/ ProcessReturn
    \/ PipelineSetErrorCall
    \/ PipelineSetError
    \/ FeedWrite
    \/ FeedClose
    \/ \E i \in 1..MaxStages : StageStep(i)

SpecCancel == Init /\ [][NextCancel]_vars

\* the first run of a Pipeline, with an input that may fail and a caller that
\* reads, extracts and peeks single bytes of the returned Consumer
NextDrain ==
    \/ \E fn \in PipeFunctions : AddPipe(fn)
    \/ \E m \in ExecutionModes : runs = 0 /\ ProcessCall(m)
    \/ WaitForCompletion
    \/ ProcessSetup
    \/ Spawn
    \/ ProcessJoin
    \/ ProcessReturn
    \/ \E o \in ReadOps : ResultCall(o, 1)
    \/ ResultWake
    \/ FeedWrite
    \/ FeedClose
    \/ FeedSetError
    \/ \E i \in 1..MaxStages : StageStep(i)

\* every thread inside a call keeps running, the input queue is closed unless
\* it is errored, and the caller keeps draining the Consumer it holds
FairDrain ==
    /\ \A i \in 1..MaxStages : WF_vars(StageStep(i))
    /\ WF_vars(WaitForCompletion)
    /\ WF_vars(ProcessSetup)
    /\ WF_vars(Spawn)
    /\ WF_vars(ProcessJoin)
    /\ WF_vars(ProcessReturn)
    /\ WF_vars(ResultWake)
    /\ WF_vars(FeedClose)
    /\ WF_vars(ResultCall("Extract", 1))

SpecDrain == Init /\ [][NextDrain]_vars /\ FairDrain

\* runs of a Pipeline that is also assigned to
NextAssign ==
    \/ NextRun
    \/ \E other \in Others : CopyAssign(other)
    \/ \E other \in Others : MoveAssign(other)

SpecAssign == Init /\ [][NextAssign]_vars

\* runs whose caller uses every operation its Consumer gives access to
NextHandles ==
    \/ NextRun
    \/ ConsumerClose
    \/ \E o \in ProducerOps : ProducerOfConsumer(o)

SpecHandles == Init /\ [][NextHandles]_vars

\* runs during which a second thread calls Pipeline::SetError()
NextRace ==
    \/ NextRun
    \/ CancelCall
    \/ CancelStep
    \/ ProcessSetupRace

SpecRace == Init /\ [][NextRace]_vars

\* runs of stage functions that use their logger
NextLog ==
    \/ NextRun
    \/ \E i \in 1..MaxStages : StageLog(i)

SpecLog == Init /\ [][NextLog]_vars

\* ======================================================================
\* Properties
\* ======================================================================

IsPrefix(a, b) == Len(a) <= Len(b) /\ a = SubSeq(b, 1, Len(a))

\* thread t takes a step of its own
Moves(t) == pc'[t] # pc[t]

\* thread t is inside Read/Extract/Peek holding m_mutex: at the start of the
\* call or after waking up from m_cv.wait
Deciding(t) == pc[t] \in {"crit", "recheck"} /\ op[t] \in ReadOps

\* the count thread t is blocked on (or about to block on)
Blocked(t) == pc[t] \in {"wait", "woken", "recheck"}

\* C1: no lost wakeup. Under fair scheduling an Extract(n), n > 0, that is
\* blocked on the queue returns once the queue is closed, errored or holds at
\* least n bytes from the cursor: no interleaving of its predicate check with
\* Close(), SetError() or Write() leaves it blocked forever.
C1_NoLostWakeup ==
    (Blocked(Reader) /\ WaitPred(real_count[Reader])) ~> (pc[Reader] = "idle")

\* a blocked Extract has returned
C1_Witness ==
    ret.t = Reader /\ ret.op = "Extract" /\ ret.waited /\ ret.n > 0

\* C2: Read(n), Extract(n) and Peek(n) wait exactly when n > 0, n exceeds the
\* bytes available from the cursor and the queue is neither closed nor
\* errored; in every other case (n == 0, closed, errored, enough bytes) the
\* call returns without waiting.
C2_WaitsOnlyWhenStarved ==
    [][\A t \in Threads :
        (Deciding(t) /\ Moves(t)) =>
            /\ pc'[t] \in {"wait", "idle"}
            /\ (pc'[t] = "wait") <=>
                  (/\ arg[t].n > 0
                   /\ arg[t].n > AvailableBytes
                   /\ ~m_closed
                   /\ ~m_error)]_vars

\* one call is blocked while another one returned without having waited
C2_Witness ==
    /\ \E t \in Threads : pc[t] = "wait" /\ waited[t]
    /\ ret.op \in ReadOps /\ ~ret.waited

C4_FlagsMonotonic ==
    /\ ~m_closed /\ ~m_error
    /\ [][/\ m_closed => m_closed'
          /\ m_error => m_error'
          /\ (m_closed' # m_closed) =>
                \E t \in Threads : pc[t] = "crit" /\ op[t] = "Close" /\ Moves(t)
          /\ (m_error' # m_error) =>
                \E t \in Threads : pc[t] = "crit" /\ op[t] = "SetError" /\ Moves(t)]_vars

\* both flags are set and a Clear() has just returned
C4_Witness ==
    m_closed /\ m_error /\ ret.op = "Clear"

\* C5: Read, Extract or Peek called on an errored queue returns the
\* error-state failure without waiting and leaves store and cursor unchanged,
\* for every count, also when enough bytes are buffered.
C5_ErroredReadFails ==
    [][\A t \in Threads :
        (pc[t] = "crit" /\ op[t] \in ReadOps /\ m_error /\ Moves(t)) =>
            /\ pc'[t] = "idle"
            /\ ret'.t = t
            /\ ~ret'.ok
            /\ ret'.err = "Buffer in error state"
            /\ ret'.data = <<>>
            /\ UNCHANGED fifoVars]_vars

\* an error-state failure although the requested bytes are buffered
C5_Witness ==
    /\ ret.op \in ReadOps /\ ret.err = "Buffer in error state"
    /\ ret.n > 0 /\ ret.n <= AvailableBytes

\* C6: no Read, Extract or Peek returns data once errored is set, also not a
\* call that was blocked when SetError() was called.
C6_NoDataOnceErrored ==
    (ret.op \in ReadOps /\ ret.ok) => ~m_error

\* C7: a Write on a closed or errored queue reports failure and leaves Size(),
\* the stored bytes and the cursor unchanged, for every payload and overload.
C7_RejectedWriteIsNoOp ==
    [][\A t \in Threads :
        (pc[t] = "crit" /\ op[t] = "Write" /\ (m_closed \/ m_error) /\ Moves(t)) =>
            /\ pc'[t] = "idle"
            /\ ret'.t = t
            /\ ret'.op = "Write"
            /\ ~ret'.ok
            /\ UNCHANGED fifoVars]_vars

\* a non-empty Write was rejected on a queue that is errored but not closed
C7_Witness ==
    ret.op = "Write" /\ ~ret.ok /\ ret.n > 0 /\ m_error /\ ~m_closed

C9_ClosedStillReadable ==
    [][\A t \in Threads :
        (pc[t] = "crit" /\ op[t] \in ReadOps /\ m_closed /\ ~m_error /\ Moves(t)) =>
            /\ pc'[t] = "idle"
            /\ ret'.t = t
            /\ (AvailableBytes >= 1 /\ arg[t].n <= AvailableBytes) =>
                  /\ ret'.ok
                  /\ ret'.data = SubSeq(m_buffer, m_position_offset + 1,
                                        m_position_offset +
                                          (IF arg[t].n = 0 THEN AvailableBytes ELSE arg[t].n))
                  /\ \A i \in 1..(Len(ret'.data) - 1) : ret'.data[i] < ret'.data[i + 1]
            /\ (AvailableBytes = 0) => ~ret'.ok]_vars

\* a read of two bytes succeeded on a closed queue
C9_Witness ==
    ret.op \in ReadOps /\ ret.ok /\ ~ret.waited /\ m_closed /\ ~m_error /\ Len(ret.data) = 2

Bytes(q) == {q[i] : i \in 1..Len(q)}

NoDuplicates(q) == \A i, j \in 1..Len(q) : i # j => q[i] # q[j]

\* C11: with several threads extracting from one queue concurrently every
\* written byte is returned to exactly one caller: no byte is returned twice,
\* only written bytes are returned, once the queue is closed and drained the
\* consumers' byte counts sum to the number of bytes written, and every
\* consumer thread terminates.
C11_EachByteToOneConsumer ==
    /\ [](/\ NoDuplicates(collected)
          /\ Bytes(collected) \subseteq Bytes(Written)
          /\ (m_closed /\ AvailableBytes = 0) => Len(collected) = Len(Written))
    /\ <>(\A t \in Consumers : pc[t] = "done")

\* both consumer threads ended, the last one out of a blocked Extract, after
\* at least two bytes were extracted
C11_Witness ==
    /\ \A t \in Consumers : pc[t] = "done"
    /\ Len(collected) >= 2
    /\ ret.t \in Consumers /\ ret.waited /\ ~ret.ok

\* the bytes of q that thread w wrote
CountOf(w, q) == Cardinality({i \in 1..Len(q) : accepted[q[i]] = w})

Holders == {t \in Threads : pc[t] \in {"crit", "recheck"}}

\* C13: every change to the queue's store, cursor, closed flag or errored flag
\* is made by a thread that holds the queue's mutex. At most one thread holds
\* it at a time, a thread blocked in Read/Extract/Peek does not hold it while
\* it waits, and no public operation changes that state without the mutex.
C13_MutexDiscipline ==
    /\ [](/\ Cardinality(Holders) <= 1
          /\ \A t \in Threads : (t \in Holders) <=> (m_mutex = t)
          /\ \A t \in Threads : pc[t] \in {"wait", "woken"} => m_mutex # t)
    /\ [][(fifoVars' # fifoVars \/ flagVars' # flagVars) =>
              (m_mutex \in Threads /\ Moves(m_mutex))]_vars


\* ---- Pipeline
\* the step with which Process returns to the caller
ProcessReturns == ppc \in {"return", "setup"} /\ ppc' = "idle"

\* C14: when Process(input, Sync) returns, the last stage has run to completion
\* on the calling thread, every stage run by a worker thread has finished (the
\* worker is joined), no stage function of the run is still executing and
\* m_threads is empty
C14_SyncLeavesNothingRunning ==
    [][ProcessReturns /\ run_mode = "Sync" =>
          /\ m_threads' = <<>>
          /\ DOMAIN stages' = 1..Len(m_producers')
          /\ \A i \in DOMAIN stages' :
                /\ stages'[i].pc = "done"
                /\ stages'[i].inline <=> i = Len(m_pipes')]_vars

\* a Sync run of two stages has returned
C14_Witness ==
    /\ ppc = "idle"
    /\ run_mode = "Sync"
    /\ Len(m_producers) = 2
    /\ result = m_producers[2]
    /\ DOMAIN stages = {1, 2}
    /\ stages[1].pc = "done" /\ ~stages[1].inline
    /\ stages[2].pc = "done" /\ stages[2].inline
    /\ m_threads = <<>>


\* a stage function that has not returned is running on the calling thread or
\* on a worker thread whose joinable handle is in m_threads
Held(i) ==
    \/ stages[i].pc = "done"
    \/ stages[i].inline
    \/ \E k \in DOMAIN m_threads : m_threads[k].stage = i /\ m_threads[k].joinable

\* C15: no operation drops a worker thread without joining it (the program is
\* not terminated by the destruction of a joinable thread, and every running
\* worker has its handle in m_threads); when the destructor has returned and
\* when Process starts to set up a run, every earlier stage has finished
C15_JoinDiscipline ==
    /\ ~terminated
    /\ \A i \in DOMAIN stages : Held(i)
    /\ ppc \in {"destroyed", "setup"} => \A i \in DOMAIN stages : stages[i].pc = "done"


\* the stage functions of the run that made m_producers
RunPipes == SubSeq(m_pipes, 1, Len(m_producers))

\* the Consumer the caller holds is the one of the last stage of the run
HoldsResult ==
    /\ m_producers # <<>>
    /\ result = m_producers[Len(m_producers)]

\* stage k(... stage 1(in) ...) for copying stages: in, then every suffix
Composed(in, k) == in \o [i \in 1..k |-> Suffix(i)]

\* C16: when every stage of the run copies its input to EoF, appends its
\* suffix and closes its output, the bytes drained from the returned Consumer
\* up to EoF are the input followed by the suffixes of the stages in order,
\* under Sync and under Async
C16_Composition ==
    (/\ HoldsResult
     /\ \A i \in DOMAIN RunPipes : RunPipes[i] = "append"
     /\ Q_EoF(queues[result]))
    => /\ ~queues[result].error
       /\ output = Composed([i \in 1..fed |-> i], Len(RunPipes))

\* an Async run of two copying stages on a one-byte input was drained to EoF
C16_Witness ==
    /\ HoldsResult
    /\ run_mode = "Async"
    /\ RunPipes = <<"append", "append">>
    /\ Q_EoF(queues[result])
    /\ fed = 1
    /\ output = <<1, Suffix(1), Suffix(2)>>


\* the run of a first stage that errors its output without writing and a
\* second stage that answers an errored input by erroring its own output
FailingRun == HoldsResult /\ RunPipes = <<"fail", "append">>

\* C17: in that run no Read, Extract or Peek with a non-zero count on the
\* returned Consumer succeeds, and the returned Consumer eventually reports
\* EoF() = TRUE
C17_ErrorReachesResult ==
    /\ [](FailingRun /\ pret.returned /\ pret.n > 0 => ~pret.ok)
    /\ (FailingRun ~> (FailingRun /\ Q_EoF(queues[result])))

\* the caller was blocked in a call with count 1 on the returned Consumer of
\* that run; the call failed when the error arrived
C17_Witness ==
    /\ FailingRun
    /\ Q_EoF(queues[result])
    /\ queues[m_producers[1]].buf = <<>>
    /\ pret.returned /\ pret.waited /\ pret.n = 1 /\ ~pret.ok


\* the output queue of every stage of the run is in the errored state
Errored == \A i \in DOMAIN m_producers : queues[m_producers[i]].error

Wired ==
    \A i \in DOMAIN stages :
        /\ stages[i].in = IF i = 1 THEN input ELSE m_producers[i - 1]
        /\ stages[i].out = m_producers[i]

\* C20: Process makes one new, empty queue per stage, none of them a queue
\* that existed before the call; the queues of a run differ from each other
\* and from the input queue; stage 0 reads the caller's input, stage i > 0
\* the queue stage i - 1 writes, and the returned Consumer reads the queue
\* of the last stage
C20_FreshQueuesPerRun ==
    /\ [][ppc = "setup" /\ ppc' = "spawn" =>
             /\ Len(m_producers') = Len(m_pipes')
             /\ \A i \in DOMAIN m_producers' :
                   /\ m_producers'[i] \notin DOMAIN queues
                   /\ queues'[m_producers'[i]] = NewQueue]_vars
    /\ [](/\ \A i, j \in DOMAIN m_producers :
                 /\ m_producers[i] # input
                 /\ (i # j => m_producers[i] # m_producers[j])
           /\ (ppc \notin {"wait_process", "setup"} => Wired)
           /\ (result # NoQueue /\ m_producers # <<>> => HoldsResult))

\* the second run of a two-stage pipeline has been set up
C20_Witness ==
    /\ runs = 2
    /\ ppc = "spawn"
    /\ stage_i = 1
    /\ Len(m_producers) = 2
    /\ \A i \in DOMAIN m_producers : queues[m_producers[i]] = NewQueue


\* stage i was started and its function has returned
StageDone(i) == i \in DOMAIN stages /\ stages[i].pc = "done"

\* no call of Process is in progress, every stage function that was started
\* has returned, and a Consumer that Process returned reports EoF()
Finished ==
    /\ ppc = "idle"
    /\ \A i \in DOMAIN stages : StageDone(i)
    /\ result # NoQueue => Q_EoF(queues[result])

\* C19: with an input queue that is eventually closed or errored and stage
\* functions that close or error their output once their input is at EoF,
\* from some point on the call of Process has returned (in both modes), every
\* stage function has returned, so every worker thread has ended, and the
\* returned Consumer, drained by the caller, reports EoF()
C19_Terminates == <>[]Finished

\* an Async run of two copying stages has ended: both workers have finished,
\* the last stage closed its output and the caller drained it
C19_Witness ==
    /\ ppc = "idle"
    /\ run_mode = "Async"
    /\ HoldsResult
    /\ RunPipes = <<"append", "append">>
    /\ StageDone(1) /\ StageDone(2)
    /\ queues[input].closed
    /\ queues[result].closed /\ ~queues[result].error
    /\ Q_EoF(queues[result])


\* C21: Process on a Pipeline without stages returns a Consumer of the queue
\* of its input Consumer, starts no thread and makes no queue, under Sync and
\* under Async; the bytes extracted from the returned Consumer, followed by
\* those still in the queue, are the bytes written to the input Producer
C21_Passthrough ==
    /\ [][ppc = "setup" /\ ppc' = "idle" =>
             /\ m_pipes = <<>>
             /\ result' = input
             /\ m_threads' = <<>> /\ stages' = stages
             /\ DOMAIN queues' \subseteq DOMAIN queues
             /\ queues'[input] = queues[input]]_vars
    /\ [](m_pipes = <<>> /\ result # NoQueue =>
             /\ result = input
             /\ output \o queues[result].buf = [i \in 1..fed |-> i])

\* an Async run of a Pipeline without stages returned the input queue; the
\* caller extracted the byte written to it and the queue was closed
C21_Witness ==
    /\ m_pipes = <<>>
    /\ run_mode = "Async"
    /\ ppc = "idle"
    /\ result = input /\ result # NoQueue
    /\ fed = 1 /\ output = <<1>>
    /\ Q_EoF(queues[result])


\* C22: a worker thread never accesses an object whose lifetime ended with
\* the call of Process that started it: no stage has read `log` after
\* Process returned, and the program has not crashed on such a read
C22_WorkersOwnWhatTheyUse ==
    /\ ~terminated
    /\ \A i \in DOMAIN stages : ~stages[i].dangling


WritesTo(q) ==
    /\ q \in DOMAIN queues /\ q \in DOMAIN queues'
    /\ \/ queues'[q].closed # queues[q].closed
       \/ queues'[q].error # queues[q].error
       \/ Len(queues'[q].buf) > Len(queues[q].buf)

\* C24: the queue of the Consumer that Process returned is closed, errored
\* or appended to only by a step of a stage function, which holds its
\* Producer; no step of the caller, who holds the Consumer, does so
C24_ConsumerCannotWrite ==
    [][HoldsResult /\ WritesTo(result) => stages' # stages]_vars


\* C25: Pipeline::SetError() may be called by a second thread at any time: no
\* thread changes m_producers while the loop of SetError reads it, and the
\* program is not aborted
C25_SetErrorThreadSafe ==
    /\ [][m_producers' # m_producers => cancel = 0]_vars
    /\ []~terminated


\* C26: while a Sync call of Process runs its stages, m_threads is empty,
\* every stage that was started runs on the calling thread, and a stage is
\* started only when the stage before it has returned
C26_SyncRunsOnCaller ==
    run_mode = "Sync" /\ ppc \in {"spawn", "inline", "join", "return"} =>
        /\ m_threads = <<>>
        /\ \A i \in DOMAIN stages :
              /\ stages[i].inline
              /\ i > 1 => stages[i - 1].pc = "done"


\* ---- SharedFIFO: what ends a wait
\* the step makes the wait predicate of the blocked thread t true
Unblocks(t) ==
    /\ Blocked(t)
    /\ ~WaitPred(real_count[t])
    /\ WaitPred(real_count[t])'

\* the step is the critical section of one of the operations ops
StepOf(ops) == m_mutex \in Threads /\ op[m_mutex] \in ops

\* C27 as stated: only a Write, a Close or a SetError makes the predicate of a
\* blocked Read/Extract/Peek true
C27_OnlyWriteCloseSetError ==
    [][\A t \in Threads : Unblocks(t) => StepOf({"Write", "Close", "SetError"})]_vars

\* C27, amended: a blocked call leaves its wait only when its predicate holds
\* (closed, errored, or real_count bytes available from the cursor); the
\* predicate is made true only by a Write, a Close, a SetError or a Seek,
\* never by a Clean, a Clear or a Skip, and a wakeup without it (there is no
\* timeout) blocks again
C27_WhatEndsAWait ==
    /\ [][\A t \in Threads :
             Unblocks(t) => StepOf({"Write", "Close", "SetError", "Seek"})]_vars
    /\ [][\A t \in Threads :
             Blocked(t) /\ ~Blocked(t)' => WaitPred(real_count[t])]_vars

\* a Seek has just made the predicate of a blocked call true on an open,
\* unerrored queue
C27_Witness ==
    \E t, u \in Threads :
        /\ pc[t] = "wait"
        /\ pc[u] = "notify" /\ op[u] = "Seek"
        /\ ~m_closed /\ ~m_error
        /\ WaitPred(real_count[t])

\* ---- SharedFIFO: a reader and a thread that writes and seeks
\* the reader thread reads or peeks a fixed count; the first results are
\* appended to collected
SeekReaderCall ==
    \E o \in {"Read", "Peek"} : \E c \in 1..MaxCount :
        Enter(Reader, o, [NoArg EXCEPT !.n = c, !.collect = (Len(collected) < MaxCount)])

\* the other thread writes a payload or moves the cursor
SeekWriterCall ==
    \E o \in {"Write", "Seek"} : \E a \in ArgsOf(o) : Enter(Writer, o, a)

NextSeek ==
    \/ SeekReaderCall
    \/ SeekWriterCall
    \/ \E t \in Pair :
        \/ SharedFIFO_Read(t)
        \/ SharedFIFO_Peek(t)
        \/ SharedFIFO_Write(t)
        \/ SharedFIFO_Seek(t)
        \/ Notify(t)
        \/ SpuriousWakeup(t)
        \/ Relock(t)
        \/ Recheck(t)

\* a thread inside a call keeps running, and a woken waiter that tries to
\* lock m_mutex infinitely often while it is free gets it
FairSeek ==
    \A t \in Pair :
        /\ WF_vars(SharedFIFO_Read(t))
        /\ WF_vars(SharedFIFO_Peek(t))
        /\ WF_vars(SharedFIFO_Write(t))
        /\ WF_vars(SharedFIFO_Seek(t))
        /\ WF_vars(Notify(t))
        /\ WF_vars(Recheck(t))
        /\ SF_vars(Relock(t))

SpecSeek == Init /\ [][NextSeek]_vars /\ FairSeek

\* the reader's Read or Peek returns from a wait on an open, unerrored queue
WaitedReturn ==
    /\ Blocked(Reader)
    /\ ~Blocked(Reader)'
    /\ op[Reader] \in {"Read", "Peek"}
    /\ ~m_closed /\ ~m_error

\* C28: a Seek notifies the waiters: a Read(n) or Peek(n) blocked on an open,
\* unerrored queue does not stay blocked while n bytes are available from the
\* cursor, and when it returns it succeeds with exactly the n bytes at the
\* cursor of that moment (the position the Seek left), a Read advancing the
\* cursor past them and a Peek leaving it
C28_SeekWakesReaders ==
    /\ [][WaitedReturn =>
             /\ ret'.t = Reader /\ ret'.ok /\ ret'.waited
             /\ ret'.data = Slice(m_buffer, m_position_offset, real_count[Reader])
             /\ Len(ret'.data) = ret'.n
             /\ m_buffer' = m_buffer
             /\ m_position_offset' = IF op[Reader] = "Read"
                                     THEN m_position_offset + ret'.n
                                     ELSE m_position_offset]_vars
    /\ []<>~(Blocked(Reader) /\ WaitPred(real_count[Reader]))

\* only byte 1 was ever written and the reader had read it; its second
\* Read(1) blocked at the end of the store and returned byte 1 again, which
\* only a Seek back to the start makes possible
C28_Witness ==
    /\ nextByte = 2
    /\ collected = <<1, 1>>
    /\ ret.t = Reader /\ ret.op = "Read" /\ ret.n = 1
    /\ ret.waited /\ ret.ok /\ ret.data = <<1>>
    /\ m_position_offset = 1
    /\ ~m_closed /\ ~m_error

\* ---- SharedFIFO: the cursor stays inside the store
\* C29: after every operation, under every interleaving of threads, the
\* cursor is at least 0 and at most the length of the store
C29_CursorInStore ==
    /\ 0 <= m_position_offset
    /\ m_position_offset <= Len(m_buffer)

\* a Seek has left the cursor at the end of a non-empty store, and a Seek
\* from there is about to be clamped
C29_Witness ==
    \E t \in Threads :
        /\ pc[t] = "crit" /\ op[t] = "Seek"
        /\ ret.op = "Seek"
        /\ m_buffer # <<>>
        /\ m_position_offset = Len(m_buffer)
        /\ FIFO_Seek(m_buffer, m_position_offset, arg[t].n, arg[t].mode).pos
               # (IF arg[t].mode = "Absolute" THEN arg[t].n
                  ELSE m_position_offset + arg[t].n)

\* ---- SharedFIFO: what Extract returns and removes
\* the step is the return of thread t from Extract
ExtractReturns(t) ==
    /\ op[t] = "Extract"
    /\ pc[t] \in {"crit", "recheck"}
    /\ pc'[t] \in {"idle", "done"}

\* C30: a successful Extract(n) returns the k bytes at the cursor (k = n, or
\* all available when n = 0) and removes exactly them: the store is the
\* bytes before the cursor followed by the bytes after the range, its size
\* drops by k, the cursor stays, and the next Read starts with the byte that
\* followed the range; a failed Extract leaves store, cursor and flags alone
C30_ExtractRemovesWhatItReturns ==
    [][\A t \in Threads : ExtractReturns(t) =>
          LET k == IF arg[t].n = 0 THEN AvailableBytes ELSE arg[t].n
              after == m_position_offset + k
          IN  /\ ret'.t = t /\ ret'.op = "Extract"
              /\ m_closed' = m_closed /\ m_error' = m_error
              /\ IF ret'.ok
                 THEN /\ k > 0
                      /\ after <= Len(m_buffer)
                      /\ ret'.data = [i \in 1..k |-> m_buffer[m_position_offset + i]]
                      /\ Len(m_buffer') = Len(m_buffer) - k
                      /\ \A i \in 1..m_position_offset : m_buffer'[i] = m_buffer[i]
                      /\ \A i \in (after + 1)..Len(m_buffer) :
                             m_buffer'[i - k] = m_buffer[i]
                      /\ m_position_offset' = m_position_offset
                      /\ (after < Len(m_buffer) =>
                             FIFO_Read(m_buffer', m_position_offset', 1).data
                                 = <<m_buffer[after + 1]>>)
                 ELSE /\ ret'.data = <<>>
                      /\ m_buffer' = m_buffer
                      /\ m_position_offset' = m_position_offset]_vars

\* an Extract(1) at cursor 1 of the store <<1, 2>> returned byte 2 and left
\* byte 1 in front of the cursor
C30_Witness ==
    /\ ret.op = "Extract" /\ ret.ok /\ ret.n = 1
    /\ ret.data = <<2>>
    /\ m_buffer = <<1>>
    /\ m_position_offset = 1

\* ---- FIFO::Read: what it returns and what it leaves
\* the step is the return of thread t from Read
ReadReturns(t) ==
    /\ op[t] = "Read"
    /\ pc[t] \in {"crit", "recheck"}
    /\ pc'[t] \in {"idle", "done"}

\* C31: a returning Read(n) at cursor c succeeds exactly when the k bytes it
\* asks for (k = n, or all available when n = 0) are there and k > 0 (on a
\* queue that is not errored); on success it returns store[c..c+k), advances
\* the cursor by k and leaves the store alone; on failure it returns nothing
\* and leaves cursor and store alone
C31_ReadExactOrNothing ==
    [][\A t \in Threads : ReadReturns(t) =>
          LET k == IF arg[t].n = 0 THEN AvailableBytes ELSE arg[t].n
          IN  /\ ret'.t = t /\ ret'.op = "Read"
              /\ m_buffer' = m_buffer
              /\ (~m_error => (ret'.ok <=> (k > 0 /\ k <= AvailableBytes)))
              /\ IF ret'.ok
                 THEN /\ k > 0
                      /\ m_position_offset + k <= Len(m_buffer)
                      /\ ret'.data = [i \in 1..k |-> m_buffer[m_position_offset + i]]
                      /\ m_position_offset' = m_position_offset + k
                 ELSE /\ ret'.data = <<>>
                      /\ m_position_offset' = m_position_offset]_vars

\* a Read(0) at cursor 1 of the store <<1, 2>> returned byte 2, everything up
\* to the end, and left the store as it was
C31_Witness ==
    /\ ret.op = "Read" /\ ret.ok /\ ret.n = 0
    /\ ret.data = <<2>>
    /\ m_buffer = <<1, 2>>
    /\ m_position_offset = 2

\* ---- a plain FIFO used by one thread: Read(n); Seek(-n, Relative); Read(n)
\* the largest store the program builds
MaxStore == MaxBytes + 1

\* a step of the program on the FIFO: store and cursor become r's, the
\* SharedFIFO flags, the threads and the Pipeline are not involved
FifoStep(r) ==
    /\ m_buffer' = r.buf
    /\ m_position_offset' = r.pos
    /\ UNCHANGED <<flagVars, m_mutex, pc, op, arg, real_count, waited, ret,
                   collected, accepted, pipelineVars, bridge, xp, cons>>

\* the program brings the FIFO into some state: it writes a byte, seeks or
\* extracts a byte
ScriptSetup ==
    /\ script.pc = "setup"
    /\ \/ /\ nextByte <= MaxStore
          /\ FifoStep(FIFO_Write(m_buffer, m_position_offset, <<nextByte>>))
          /\ nextByte' = nextByte + 1
       \/ /\ \E f \in Offsets, m \in Modes :
                FifoStep(FIFO_Seek(m_buffer, m_position_offset, f, m))
          /\ UNCHANGED nextByte
       \/ /\ FifoStep(FIFO_Extract(m_buffer, m_position_offset, 1))
          /\ UNCHANGED nextByte
    /\ UNCHANGED script

\* auto a = fifo.Read(n); the program goes on when it succeeded
ScriptRead ==
    /\ script.pc = "setup"
    /\ \E n \in 0..MaxStore :
          LET r == FIFO_Read(m_buffer, m_position_offset, n)
          IN  /\ r.ok
              /\ FifoStep(r)
              /\ script' = [NoScript EXCEPT !.pc = "read", !.n = n, !.first = r.data]
    /\ UNCHANGED nextByte

\* fifo.Seek(-n, Position::Relative)
ScriptSeekBack ==
    /\ script.pc = "read"
    /\ FifoStep(FIFO_Seek(m_buffer, m_position_offset, 0 - script.n, "Relative"))
    /\ script' = [script EXCEPT !.pc = "sought"]
    /\ UNCHANGED nextByte

\* auto b = fifo.Read(n)
ScriptReread ==
    /\ script.pc = "sought"
    /\ LET r == FIFO_Read(m_buffer, m_position_offset, script.n)
       IN  /\ FifoStep(r)
           /\ script' = [script EXCEPT !.pc = "end", !.ok = r.ok, !.second = r.data]
    /\ UNCHANGED nextByte

NextScript ==
    \/ ScriptSetup
    \/ ScriptRead
    \/ ScriptSeekBack
    \/ ScriptReread

SpecScript == Init /\ [][NextScript]_vars

\* C32 as stated: whenever the first Read(n) succeeded, the Read(n) after
\* Seek(-n, Relative) succeeds and returns the same bytes
C32_RereadIdentical ==
    script.pc = "end" => script.ok /\ script.second = script.first

\* C32, amended: for n > 0 the second Read(n) succeeds with the same bytes;
\* for n = 0 the Seek does not move the cursor, which the first Read left at
\* the end of the store, and the second Read(0) fails
C32_RereadIdenticalForPositiveN ==
    script.pc = "end" =>
        IF script.n > 0
        THEN script.ok /\ script.second = script.first /\ Len(script.first) = script.n
        ELSE ~script.ok /\ script.second = <<>> /\ script.first # <<>>

\* the program read two bytes from cursor 1 of a three-byte store, sought
\* back and read them again
C32_Witness ==
    /\ script.pc = "end" /\ script.n = 2
    /\ script.ok /\ script.first = <<2, 3>> /\ script.second = <<2, 3>>
    /\ m_buffer = <<1, 2, 3>>

\* ---- Skip: what it discards
\* the step is the critical section of thread t's Skip
SkipActs(t) ==
    /\ op[t] = "Skip"
    /\ pc[t] = "crit"
    /\ pc'[t] # "crit"

\* C33: Skip(c) with c > 0 discards, in one step under m_mutex, the bytes
\* before the cursor and the next min(c, available) bytes after it and leaves
\* the cursor at 0, so that the store is the rest of the unread bytes;
\* Skip(0) changes nothing; the call takes the mutex once, releases it, and
\* then wakes every waiter
C33_SkipDiscards ==
    /\ [][\A t \in Threads : SkipActs(t) =>
             LET c == arg[t].n
                 k == IF c <= AvailableBytes THEN c ELSE AvailableBytes
             IN  /\ m_mutex = t /\ m_mutex' = Free
                 /\ pc'[t] = "notify"
                 /\ m_closed' = m_closed /\ m_error' = m_error
                 /\ IF c = 0
                    THEN m_buffer' = m_buffer /\ m_position_offset' = m_position_offset
                    ELSE /\ m_position_offset' = 0
                         /\ Len(m_buffer') = AvailableBytes - k
                         /\ \A i \in 1..Len(m_buffer') :
                               m_buffer'[i] = m_buffer[m_position_offset + k + i]]_vars
    /\ [][\A t \in Threads : pc[t] = "notify" /\ op[t] = "Skip" /\ pc'[t] = "idle" =>
             \A u \in Threads : pc[u] = "wait" => pc'[u] = "woken"]_vars

\* a Skip has left byte 2 at cursor 0 and is about to notify a reader that
\* waits for two bytes
C33_Witness ==
    \E t, u \in Threads :
        /\ pc[t] = "notify" /\ op[t] = "Skip"
        /\ pc[u] = "wait" /\ real_count[u] = 2
        /\ m_buffer = <<2>>
        /\ m_position_offset = 0

\* ---- Bridge (bridge.cxx): ExternalReader -> chunks -> ExternalWriter
\* the bytes the reader can hand over in all, numbered in order
MaxRead == MaxBytes + 1

ChunkSizes == 0..MaxCount

\* Bridge(in, out, chunk_size)
BridgeConstruct ==
    /\ ~bridge.live
    /\ \E c \in ChunkSizes :
          bridge' = [NoBridge EXCEPT !.live = TRUE, !.m_chunk_size = c]
    /\ UNCHANGED <<sharedVars, pipelineVars, script, xp, cons>>

\* Bridge::PassthroughWrite(data) when the writer accepts the first j writes
\* and rejects the next one, if the code comes to make one
PassthroughWrite(data, j) ==
    LET combined == bridge.m_buffer \o data
        c == bridge.m_chunk_size
        full == IF c = 0 THEN 0 ELSE Len(combined) \div c
        pos == (IF j < full THEN j ELSE full) * c
    IN  IF c = 0
        THEN IF combined = <<>>
             THEN [bridge EXCEPT !.m_buffer = <<>>, !.ok = TRUE]
             ELSE [bridge EXCEPT !.m_buffer = <<>>,
                                 !.written = IF j > 0 THEN @ \o combined ELSE @,
                                 !.ok = (j > 0)]
        ELSE [bridge EXCEPT !.m_buffer = SubSeq(combined, pos + 1, Len(combined)),
                            !.written = @ \o SubSeq(combined, 1, pos),
                            !.ok = (j >= full)]

\* Bridge::Passthrough(bytes): m_read_handler->Read(bytes, out) fails, or hands
\* over the next d bytes and PassthroughWrite forwards them
Passthrough ==
    /\ bridge.live
    /\ \E bytes \in 0..MaxCount :
          \/ bridge' = [bridge EXCEPT !.last = "Passthrough", !.ok = FALSE]
          \/ \E d \in 0..bytes, j \in 0..MaxRead :
                LET data == [i \in 1..d |-> Len(bridge.obtained) + i]
                IN  /\ Len(bridge.obtained) + d <= MaxRead
                    /\ bridge' = [PassthroughWrite(data, j) EXCEPT
                                     !.obtained = @ \o data, !.last = "Passthrough"]
    /\ UNCHANGED <<sharedVars, pipelineVars, script, xp, cons>>

\* Bridge::Flush(): nothing pending, or Extract(0) takes all pending bytes and
\* the writer accepts or rejects them
Flush ==
    /\ bridge.live
    /\ IF bridge.m_buffer = <<>>
       THEN bridge' = [bridge EXCEPT !.last = "Flush", !.ok = TRUE]
       ELSE LET e == FIFO_Extract(bridge.m_buffer, 0, 0)
            IN  \E accept \in BOOLEAN :
                  bridge' = [bridge EXCEPT !.m_buffer = e.buf,
                                           !.written = IF e.ok /\ accept THEN @ \o e.data ELSE @,
                                           !.last = "Flush",
                                           !.ok = e.ok /\ accept]
    /\ UNCHANGED <<sharedVars, pipelineVars, script, xp, cons>>

NextBridge ==
    \/ BridgeConstruct
    \/ Passthrough
    \/ Flush

SpecBridge == Init /\ [][NextBridge]_vars

\* C34: with chunk_size c > 0, after every Passthrough call fewer than c
\* bytes are pending in the bridge's buffer
C34_PendingBelowChunk ==
    bridge.live /\ bridge.m_chunk_size > 0 /\ bridge.last = "Passthrough" =>
        Len(bridge.m_buffer) < bridge.m_chunk_size

\* C35: after any sequence of Passthrough and Flush calls the bytes the
\* writer accepted followed by the pending bytes are the bytes obtained from
\* the reader, in order
C35_NothingLost ==
    bridge.live => bridge.written \o bridge.m_buffer = bridge.obtained

\* ---- ExternalProducer (external_producer.cxx): reader -> m_rw_thread -> queue
\* ExternalProducer(reader): Producer() makes the queue, m_rw_thread starts
XPConstruct ==
    /\ xp.pc = "none"
    /\ xp' = [NoXP EXCEPT !.pc = "read"]
    /\ UNCHANGED <<sharedVars, pipelineVars, script, bridge, cons>>

\* auto expected_data = m_external_reader(): the reader fails, returns an
\* empty chunk, or returns the next d bytes of its data
XPRead ==
    /\ xp.pc = "read"
    /\ \/ xp' = [xp EXCEPT !.pc = "end", !.has_error = TRUE, !.why = "failed"]
       \/ xp' = [xp EXCEPT !.pc = "end", !.why = "empty"]
       \/ \E d \in 1..MaxCount :
             /\ Len(xp.handed) + d <= MaxRead
             /\ LET data == [i \in 1..d |-> Len(xp.handed) + i]
                IN  xp' = [xp EXCEPT !.pc = "write", !.chunk = data,
                                     !.handed = @ \o data]
    /\ UNCHANGED <<sharedVars, pipelineVars, script, bridge, cons>>

\* has_error = !this->Write(*expected_data)
XPWrite ==
    /\ xp.pc = "write"
    /\ LET rejected == xp.q.closed \/ xp.q.error
       IN  xp' = [xp EXCEPT !.pc = "test",
                            !.q = Q_Write(@, xp.chunk),
                            !.chunk = <<>>,
                            !.has_error = rejected,
                            !.why = IF rejected THEN "rejected" ELSE @,
                            !.appended = IF rejected THEN @ ELSE @ \o xp.chunk]
    /\ UNCHANGED <<sharedVars, pipelineVars, script, bridge, cons>>

\* while (this->IsWritable() && !has_error)
XPTest ==
    /\ xp.pc = "test"
    /\ xp' = IF ~xp.q.closed /\ ~xp.q.error /\ ~xp.has_error
             THEN [xp EXCEPT !.pc = "read"]
             ELSE [xp EXCEPT !.pc = "end",
                             !.why = IF xp.has_error THEN @ ELSE "unwritable"]
    /\ UNCHANGED <<sharedVars, pipelineVars, script, bridge, cons>>

\* the end of the thread as it would be if it always closed the queue
XPEndCloses ==
    /\ xp.pc = "end"
    /\ xp' = [xp EXCEPT !.pc = "done", !.q = Q_Close(@), !.ended = @ \o <<"Close">>]
    /\ UNCHANGED <<sharedVars, pipelineVars, script, bridge, cons>>

\* if (has_error) this->SetError(); else this->Close();
XPEnd ==
    /\ xp.pc = "end"
    /\ xp' = IF xp.has_error
             THEN [xp EXCEPT !.pc = "done", !.q = Q_SetError(@),
                             !.ended = @ \o <<"SetError">>]
             ELSE [xp EXCEPT !.pc = "done", !.q = Q_Close(@),
                             !.ended = @ \o <<"Close">>]
    /\ UNCHANGED <<sharedVars, pipelineVars, script, bridge, cons>>

\* ext.SetError() from outside (ExternalProducer re-exports Producer::SetError)
XPSetError ==
    /\ xp.pc # "none"
    /\ ~xp.q.error
    /\ xp' = [xp EXCEPT !.q = Q_SetError(@)]
    /\ UNCHANGED <<sharedVars, pipelineVars, script, bridge, cons>>

\* the consumer's loop of the test: consumer.Extract(0), appended to what it
\* collected when it succeeded
XPDrain ==
    /\ xp.pc # "none"
    /\ LET c == Q_Call(xp.q, "Extract", 0)
       IN  /\ c.r.ok
           /\ xp' = [xp EXCEPT !.q = Q_After(@, c.r)]
           /\ cons' = [cons EXCEPT !.result = @ \o c.r.data]
    /\ UNCHANGED <<sharedVars, pipelineVars, script, bridge>>

NextXP ==
    \/ XPConstruct
    \/ XPRead
    \/ XPWrite
    \/ XPTest
    \/ XPEnd
    \/ XPSetError
    \/ XPDrain

\* m_rw_thread keeps running, and the consumer keeps draining
FairXP ==
    /\ WF_vars(XPRead)
    /\ WF_vars(XPWrite)
    /\ WF_vars(XPTest)
    /\ WF_vars(XPEnd)
    /\ WF_vars(XPDrain)

SpecXP == Init /\ [][NextXP]_vars /\ FairXP

\* C36: the thread appends the reader's non-empty chunks in call order;
\* once started it ends the queue, exactly once: with Close() after an empty
\* chunk, with SetError() after a failed read or a rejected Write; and after
\* an end by Close() on a queue that is not errored, a consumer that drained
\* the queue to EoF holds exactly the bytes of all chunks, in order
C36_PumpThenEnd ==
    /\ [](/\ cons.result \o xp.q.buf = xp.appended
          /\ xp.q.pos = 0
          /\ (~xp.has_error => xp.appended \o xp.chunk = xp.handed)
          /\ Len(xp.ended) <= 1
          /\ (xp.pc = "done" <=> Len(xp.ended) = 1)
          /\ (xp.pc = "done" /\ xp.why = "empty" => xp.ended = <<"Close">>)
          /\ (xp.pc = "done" /\ xp.why \in {"failed", "rejected"} =>
                 xp.ended = <<"SetError">> /\ xp.q.error)
          /\ (xp.ended = <<"Close">> /\ ~xp.q.error /\ Q_EoF(xp.q) =>
                 cons.result = xp.handed))
    /\ [](xp.pc # "none" => <>(xp.pc = "done"))

\* the reader gave two chunks and then an empty one, the thread closed the
\* queue, and the consumer drained it to EoF
C36_Witness ==
    /\ xp.pc = "done" /\ xp.why = "empty" /\ xp.ended = <<"Close">>
    /\ ~xp.q.error /\ Q_EoF(xp.q)
    /\ xp.handed = <<1, 2, 3>>
    /\ cons.result = <<1, 2, 3>>

\* ---- loops over a Consumer whose queue a producer thread fills and ends
\* the loops: Consumer::ReadUntilEoF and Consumer::ExtractUntilEoF
\* (consumer.cxx), and the stage function of the example in pipeline.hxx
UntilEoF == {"ReadUntilEoF", "ExtractUntilEoF"}

\* the member function the loop f calls on the Consumer
LoopOp(f) == IF f = "ReadUntilEoF" THEN "Read" ELSE "Extract"

\* the thread that holds the Consumer enters the loop f, which asks for k
\* bytes at a time; its result (or its output queue) starts empty
ConsCall(f, k) ==
    /\ xp.pc # "none"
    /\ cons.pc = "idle"
    /\ cons.op = ""
    /\ cons' = [NoCons EXCEPT !.pc = "eof", !.op = f, !.count = k]
    /\ UNCHANGED <<sharedVars, pipelineVars, script, bridge, xp>>

\* while (!EoF()): the loop ends, and the stage goes on to out.Close()
ConsEoF ==
    /\ cons.pc = "eof"
    /\ cons' = [cons EXCEPT !.pc = IF ~Q_EoF(xp.q) THEN "call"
                                   ELSE IF cons.op = "stage" THEN "close"
                                   ELSE "returned"]
    /\ UNCHANGED <<sharedVars, pipelineVars, script, bridge, xp>>

\* the call of the loop body returned r: on success the data is appended to
\* the result (the stage writes it to its output); on failure the UntilEoF
\* loops break and the stage goes on with its loop
ConsGot(r) ==
    /\ xp' = [xp EXCEPT !.q = Q_After(@, r)]
    /\ cons' = [cons EXCEPT !.result = IF r.ok THEN @ \o r.data ELSE @,
                            !.pc = IF r.ok \/ cons.op = "stage" THEN "eof"
                                   ELSE "returned"]

\* auto data = Read(); / Extract(); / in.Extract(k);
ConsRead ==
    /\ cons.pc = "call"
    /\ LET c == Q_Call(xp.q, LoopOp(cons.op), cons.count)
       IN  IF c.blocks
           THEN /\ cons' = [cons EXCEPT !.pc = "blocked"]
                /\ UNCHANGED xp
           ELSE ConsGot(c.r)
    /\ UNCHANGED <<sharedVars, pipelineVars, script, bridge>>

\* the blocked call leaves m_cv.wait and returns
ConsWake ==
    /\ cons.pc = "blocked"
    /\ Q_WaitPred(xp.q, cons.count)
    /\ ConsGot(Q_Op(xp.q, LoopOp(cons.op), cons.count))
    /\ UNCHANGED <<sharedVars, pipelineVars, script, bridge>>

\* out.Close() after the loop of the stage
ConsClose ==
    /\ cons.pc = "close"
    /\ cons' = [cons EXCEPT !.pc = "returned", !.out_closed = TRUE]
    /\ UNCHANGED <<sharedVars, pipelineVars, script, bridge, xp>>

\* the example stage on an input that a producer thread fills and ends
NextStage ==
    \/ XPConstruct
    \/ XPRead
    \/ XPWrite
    \/ XPTest
    \/ XPEnd
    \/ \E k \in 1..MaxCount : ConsCall("stage", k)
    \/ ConsEoF
    \/ ConsRead
    \/ ConsWake
    \/ ConsClose

\* both threads keep running
FairStage ==
    /\ WF_vars(XPRead)
    /\ WF_vars(XPWrite)
    /\ WF_vars(XPTest)
    /\ WF_vars(XPEnd)
    /\ WF_vars(ConsEoF)
    /\ WF_vars(ConsRead)
    /\ WF_vars(ConsWake)
    /\ WF_vars(ConsClose)

SpecStage == Init /\ [][NextStage]_vars /\ FairStage

\* C37: once its input has been closed, the example stage leaves its loop
\* and closes its output, whatever its chunk size and the length of the input
C37_StageTerminates ==
    [](cons.op = "stage" /\ xp.q.closed =>
          <>(cons.pc = "returned" /\ cons.out_closed))

\* the count of the calls Read() and Extract() without argument: the default
\* of the count parameter, "all currently available bytes"
DefaultCount == 0

\* Consumer::ReadUntilEoF or Consumer::ExtractUntilEoF, called while a
\* producer thread writes its chunks and then ends the queue; with the
\* default count the call in the loop never waits
NextUntil ==
    \/ XPConstruct
    \/ XPRead
    \/ XPWrite
    \/ XPTest
    \/ XPEnd
    \/ \E f \in UntilEoF : ConsCall(f, DefaultCount)
    \/ ConsEoF
    \/ ConsRead

SpecUntil == Init /\ [][NextUntil]_vars

\* C39: ReadUntilEoF and ExtractUntilEoF return only once the queue is at
\* EoF, and the result then holds every byte the producer wrote, in order
C39_UntilEoFReturnsAll ==
    cons.op \in UntilEoF /\ cons.pc = "returned" =>
        /\ Q_EoF(xp.q)
        /\ ~xp.q.error => cons.result = xp.appended

\* the first run of a Pipeline, an Async one, that the caller aborts with
\* Pipeline::SetError() and then destroys; the caller may or may not write
\* to and close the input queue it passed to Process
NextAbort ==
    \/ \E fn \in PipeFunctions : AddPipe(fn)
    \/ runs = 0 /\ ProcessCall("Async")
    \/ WaitForCompletion
    \/ ProcessSetup
    \/ Spawn
    \/ ProcessReturn
    \/ PipelineSetErrorCall
    \/ PipelineSetError
    \/ Destructor
    \/ FeedWrite
    \/ FeedClose
    \/ \E i \in 1..MaxStages : StageStep(i)

\* every thread inside a call keeps running; nothing makes the caller end
\* its input queue
FairAbort ==
    /\ \A i \in 1..MaxStages : WF_vars(StageStep(i))
    /\ WF_vars(WaitForCompletion)
    /\ WF_vars(ProcessSetup)
    /\ WF_vars(Spawn)
    /\ WF_vars(ProcessReturn)
    /\ WF_vars(PipelineSetError)

SpecAbort == Init /\ [][NextAbort]_vars /\ FairAbort

\* every stage function of the run has returned
AllReturned == \A i \in DOMAIN stages : stages[i].pc = "done"

\* the input queue of the run is closed or in error
InputEnded ==
    input \in DOMAIN queues => queues[input].closed \/ queues[input].error

\* the output of every stage is in error: the state Pipeline::SetError()
\* leaves when its loop has ended
Aborted ==
    /\ m_producers # <<>>
    /\ \A k \in DOMAIN m_producers : queues[m_producers[k]].error

\* C38 as stated: after Pipeline::SetError() during an Async run every worker
\* thread terminates and a waiting destructor returns, also when the caller
\* never ends the input queue: from some moment on, an aborted run has all
\* its stage functions returned and no destructor waiting
C38_SetErrorEndsRun ==
    <>[](run_mode = "Async" /\ Aborted => AllReturned /\ ppc # "wait_dtor")

\* C38: after Pipeline::SetError() during an Async run whose input queue is
\* closed or in error, every worker thread terminates and a waiting
\* destructor returns: from some moment on, an aborted run with an ended
\* input has all its stage functions returned and no destructor waiting
C38_SetErrorEndsRunWhenInputEnded ==
    <>[](run_mode = "Async" /\ Aborted /\ InputEnded =>
            AllReturned /\ ppc # "wait_dtor")

\* an Async run of forwarding stages only whose outputs are all in error,
\* which only Pipeline::SetError() does, has ended and its Pipeline is
\* destroyed
C38_Witness ==
    /\ ppc = "destroyed"
    /\ run_mode = "Async"
    /\ Aborted
    /\ \A k \in DOMAIN m_pipes : m_pipes[k] = "append"
    /\ fed > 0
    /\ stages # <<>>
    /\ AllReturned

\* the step is a Seek that moves the cursor backwards
SeekBack ==
    /\ \E t \in Threads : pc[t] = "crit" /\ op[t] = "Seek"
    /\ m_position_offset' < m_position_offset

\* C40: on a closed queue AvailableBytes() grows only in a Seek that moves the
\* cursor backwards, and the value of EoF(), once true, stays true over every
\* step that is not such a Seek
C40_ClosedStaysDrained ==
    [][/\ m_closed /\ AvailableBytes' > AvailableBytes => SeekBack
       /\ EoFValue /\ ~SeekBack => EoFValue']_vars

\* EoF() has returned true on a closed queue that holds bytes behind its cursor
C40_Witness ==
    /\ ret.op = "EoF" /\ ret.val = TRUE
    /\ m_closed /\ ~m_error
    /\ m_position_offset > 0
    /\ AvailableBytes = 0

====
